---- MODULE Spec2Model ----
(***************************************************************************)
(* Model of the receipt / payout document generator                        *)
(* (src/src/generators/invoice.js) and of the price formatter it exports.  *)
(* Strings are sequences of one-character strings, so that padding,        *)
(* trimming and concatenation are computed character by character.         *)
(* Lengths on the page are in tenths of a PDF point.                       *)
(***************************************************************************)
EXTENDS Integers, Sequences, FiniteSets

VARIABLES
    pc,         \* position inside generate(), or the price formatter's phase
    pValue,     \* prettyPrice: the value argument
    pCurrency,  \* prettyPrice: the currency argument
    pResult,    \* prettyPrice: the returned string
    engine,     \* the Invoice instance and its canvas
    args,       \* the arguments of the generate() call
    stages,     \* the stages generate() has run, in order
    twin,       \* a second instance: its position, engine and stages
    run,        \* a createAndSaveReceipts call: its position, data and effects
    addr,       \* a getAddresses call: its position and locals
    months,     \* a getMonthPeriods call: its position and locals
    payout      \* a payoutLineItems call: its position, input and result

\* the variables of the document generator and the price formatter
generator == <<pc, pValue, pCurrency, pResult, engine, args, stages, twin>>

vars == <<pc, pValue, pCurrency, pResult, engine, args, stages, twin,
          run, addr, months, payout>>

----------------------------------------------------------------------------
(* Bounds of the checked instances *)

\* amounts (minor units) handed to prettyPrice range over -MaxCents..MaxCents
MaxCents == 1100
\* longest pre-formatted string handed to prettyPrice
MaxStrLen == 6

----------------------------------------------------------------------------
(* JavaScript values and strings *)

Num(n) == [t |-> "number", n |-> n, s |-> <<>>, a |-> <<>>]
Str(s) == [t |-> "string", n |-> 0, s |-> s, a |-> <<>>]
Arr(items) == [t |-> "array", n |-> 0, s |-> <<>>, a |-> items]
Undefined == [t |-> "undefined", n |-> 0, s |-> <<>>, a |-> <<>>]

Digit(d) == CASE d = 0 -> "0" [] d = 1 -> "1" [] d = 2 -> "2" [] d = 3 -> "3"
              [] d = 4 -> "4" [] d = 5 -> "5" [] d = 6 -> "6" [] d = 7 -> "7"
              [] d = 8 -> "8" [] d = 9 -> "9"

RECURSIVE NatToString(_)
NatToString(n) == IF n < 10 THEN <<Digit(n)>>
                  ELSE NatToString(n \div 10) \o <<Digit(n % 10)>>

Abs(n) == IF n < 0 THEN 0 - n ELSE n

\* Number.prototype.toString for an integer
IntToString(n) == IF n < 0 THEN <<"-">> \o NatToString(0 - n) ELSE NatToString(n)

\* (value / 100).toFixed(2) for an integer value
ToFixed2Drop(cents) ==
    (IF cents < 0 THEN <<"-">> ELSE <<>>)
        \o NatToString(Abs(cents) \div 100) \o <<".">>
        \o <<Digit(Abs(cents) % 10)>>
ToFixed2(cents) ==
    (IF cents < 0 THEN <<"-">> ELSE <<>>)
        \o NatToString(Abs(cents) \div 100) \o <<".">>
        \o <<Digit((Abs(cents) % 100) \div 10), Digit(Abs(cents) % 10)>>

\* String(value)
JsString(v) == CASE v.t = "number" -> IntToString(v.n)
                 [] v.t = "string" -> v.s
                 [] OTHER -> <<"u","n","d","e","f","i","n","e","d">>

\* if (value): a non-empty string or a non-zero number
Truthy(v) == CASE v.t = "number" -> v.n # 0
               [] v.t = "string" -> v.s # <<>>
               [] OTHER -> FALSE

RECURSIVE PadStart(_, _, _)
PadStartNone(s, n, ch) == s
PadStart(s, n, ch) == IF Len(s) >= n THEN s ELSE PadStart(<<ch>> \o s, n, ch)

RECURSIVE TrimEnd(_)
TrimEnd(s) == IF s # <<>> /\ s[Len(s)] = " "
              THEN TrimEnd(SubSeq(s, 1, Len(s) - 1)) ELSE s

\* prettyPrice(value, currency)
PrettyPrice(value, currency) ==
    LET v1 == IF value.t = "number" THEN Str(ToFixed2(value.n)) ELSE value
        v2 == IF Truthy(currency)
              THEN Str(TrimEnd(PadStart(JsString(v1), 5, " ") \o <<" ">>
                                  \o JsString(currency)))
              ELSE v1
    IN  PadStart(JsString(v2), 5, " ")

----------------------------------------------------------------------------
(* The canvas (pdfkit's PDFDocument) and the style of the document *)

Max(a, b) == IF a >= b THEN a ELSE b

\* lengths are kept in tenths of a point
Scale == 10
Pt(n) == n * Scale

\* new PDFDocument({ size: "A4", margin: 30 }): 595.28pt wide
PageWidth == 5953
MarginLeft == Pt(30)
MarginRight == Pt(30)
MarginTop == Pt(30)

\* this.defaultOptions.style
Style ==
    [fonts |-> [normal |-> "Helvetica", bold |-> "Helvetica-Bold"],
     header |-> [backgroundColor |-> "#F8F8FA", height |-> Pt(150),
                 regularColor |-> "", secondaryColor |-> "",
                 textPosition |-> Pt(330)],
     table |-> [quantity |-> [position |-> Pt(330), maxWidth |-> Pt(140)],
                total |-> [position |-> Pt(475), maxWidth |-> Pt(80)]],
     text |-> [primaryColor |-> "#000100", secondaryColor |-> "#8F8F8F",
               titleSize |-> 30, headingSize |-> 15, regularSize |-> 10]]

\* an option that was not passed (undefined)
NoWidth == 0 - 1
\* the quotient of a division by zero
Infinity == PageWidth * PageWidth
\* a / b on lengths; b = 0 gives Infinity
Divide(a, b) == IF b = 0 THEN Infinity ELSE a \div b

\* document.currentLineHeight(): 1.2 times the font size
LineHeight(size) == (size * 12 * Scale) \div 10

\* the width the canvas wraps a text in
WrapWidth(e, width) == IF width = NoWidth THEN PageWidth - MarginRight - e.x ELSE width

\* the number of lines the canvas breaks a text into
TextLines(text, width, charWidth) ==
    LET perLine == Max(1, width \div charWidth)
    IN  Max(1, (Len(text) + perLine - 1) \div perLine)

\* what a call site tells about itself: stage, table row (0 is the header
\* row), column of that row, sub-item of that column (0: none), column of
\* the sub-item's row
Ctx(stage) == [stage |-> stage, row |-> 0, col |-> 0, sub |-> 0, scol |-> 0]

\* one entry of the engine's log: a canvas command (rect, text, line, end),
\* a cursor movement (moveTo, moveDown) or a storage access (read, write).
\* y0 is document.y before the operation, ty the y a text or a line is
\* drawn at, x and y the cursor after the operation, d the canvas settings
\* after it and, for a text, the colorCode and marginTop setText resolved.
Event(op, site, ctx, y0, x, y, ty, d) ==
    [op |-> op, site |-> site, stage |-> ctx.stage, row |-> ctx.row,
     col |-> ctx.col, sub |-> ctx.sub, scol |-> ctx.scol,
     y0 |-> y0, x |-> x, y |-> y, ty |-> ty,
     text |-> d.text, width |-> d.width, align |-> d.align,
     font |-> d.font, color |-> d.color, fillArg |-> d.fillArg, size |-> d.size,
     code |-> d.code, margin |-> d.margin]

\* the canvas settings of e, for an operation that draws no text
Settings(e) ==
    [text |-> <<>>, width |-> NoWidth, align |-> "", font |-> e.font,
     color |-> e.fillColor, fillArg |-> "", size |-> e.fontSize,
     code |-> "", margin |-> 0]

----------------------------------------------------------------------------
(* The engine: class Invoice *)

\* moveTo(x, y), always called with both coordinates
MoveTo(e, x, y, site, ctx) ==
    [e EXCEPT !.x = x, !.y = y,
              !.log = Append(e.log, Event("moveTo", site, ctx, e.y, x, y, y, Settings(e)))]

\* document.moveDown(num / den)
MoveDownBold(e, num, den, site, ctx) ==
    [e EXCEPT !.y = e.y + (LineHeight(e.fontSize) * num) \div den,
              !.font = Style.fonts.bold,
              !.log = Append(e.log,
                  Event("moveDown", site, ctx, e.y, e.x,
                        e.y + (LineHeight(e.fontSize) * num) \div den,
                        e.y + (LineHeight(e.fontSize) * num) \div den,
                        Settings([e EXCEPT !.font = Style.fonts.bold])))]
MoveDown(e, num, den, site, ctx) ==
    [e EXCEPT !.y = e.y + (LineHeight(e.fontSize) * num) \div den,
              !.log = Append(e.log,
                  Event("moveDown", site, ctx, e.y, e.x,
                        e.y + (LineHeight(e.fontSize) * num) \div den,
                        e.y + (LineHeight(e.fontSize) * num) \div den, Settings(e)))]

\* an access to this.storage[key].height
Access(e, op, key, stage) ==
    [e EXCEPT !.log = Append(e.log,
        Event(op, key, Ctx(stage), e.y, e.x, e.y, e.y, Settings(e)))]

\* getFontOrFallback(type)
GetFontOrFallback(type) ==
    IF type = "bold" THEN Style.fonts.bold ELSE Style.fonts.normal

\* valueOrTransliterate(value): the transliteration is stubbed
ValueOrTransliterate(value) == value

\* the options of setText that a call site leaves out
NoOptions == [fontWeight |-> "", colorCode |-> "", fontSize |-> "", align |-> "",
              color |-> "", marginTop |-> 0, maxWidth |-> NoWidth]

\* document.fillColor(color) on the canvas's current fill colour: a colour
\* the canvas cannot parse sets nothing
FillColor(current, color) == IF color = "" THEN current ELSE color

\* setText(text, options)
SetTextNoMargin(e, text, o, site, ctx) ==
    LET _fontWeight == IF o.fontWeight # "" THEN o.fontWeight ELSE "normal"
        _colorCode == IF o.colorCode # "" THEN o.colorCode ELSE "primary"
        _fontSize == IF o.fontSize # "" THEN o.fontSize ELSE "regular"
        _textAlign == IF o.align # "" THEN o.align ELSE "left"
        _color == o.color
        _marginTop == o.marginTop
        _maxWidth == o.maxWidth
        y == e.y
        themed == IF _color = ""
                  THEN IF _colorCode = "primary"
                       THEN FillColor(e.fillColor, Style.text.primaryColor)
                       ELSE FillColor(e.fillColor, Style.text.secondaryColor)
                  ELSE e.fillColor
        fontSize == IF _fontSize = "heading" THEN Style.text.headingSize
                    ELSE IF _fontSize = "title" THEN Style.text.titleSize
                    ELSE Style.text.regularSize
        font == GetFontOrFallback(_fontWeight)
        fill == FillColor(themed, _color)
        drawn == JsString(ValueOrTransliterate(text))
        lines == TextLines(drawn, WrapWidth(e, _maxWidth), e.charWidth)
        endY == y + lines * LineHeight(fontSize)
    IN  [e EXCEPT !.y = endY, !.font = font, !.fillColor = fill, !.fontSize = fontSize,
                  !.log = Append(e.log,
                      Event("text", site, ctx, e.y, e.x, endY, y,
                            [text |-> drawn, width |-> _maxWidth, align |-> _textAlign,
                             font |-> font, color |-> fill, fillArg |-> _color,
                             size |-> fontSize, code |-> _colorCode,
                             margin |-> _marginTop]))]
SetText(e, text, o, site, ctx) ==
    LET _fontWeight == IF o.fontWeight # "" THEN o.fontWeight ELSE "normal"
        _colorCode == IF o.colorCode # "" THEN o.colorCode ELSE "primary"
        _fontSize == IF o.fontSize # "" THEN o.fontSize ELSE "regular"
        _textAlign == IF o.align # "" THEN o.align ELSE "left"
        _color == o.color
        _marginTop == o.marginTop
        _maxWidth == o.maxWidth
        y == e.y + _marginTop
        themed == IF _color = ""
                  THEN IF _colorCode = "primary"
                       THEN FillColor(e.fillColor, Style.text.primaryColor)
                       ELSE FillColor(e.fillColor, Style.text.secondaryColor)
                  ELSE e.fillColor
        fontSize == IF _fontSize = "heading" THEN Style.text.headingSize
                    ELSE IF _fontSize = "title" THEN Style.text.titleSize
                    ELSE Style.text.regularSize
        font == GetFontOrFallback(_fontWeight)
        fill == FillColor(themed, _color)
        drawn == JsString(ValueOrTransliterate(text))
        lines == TextLines(drawn, WrapWidth(e, _maxWidth), e.charWidth)
        endY == y + lines * LineHeight(fontSize)
    IN  [e EXCEPT !.y = endY, !.font = font, !.fillColor = fill, !.fontSize = fontSize,
                  !.log = Append(e.log,
                      Event("text", site, ctx, e.y, e.x, endY, y,
                            [text |-> drawn, width |-> _maxWidth, align |-> _textAlign,
                             font |-> font, color |-> fill, fillArg |-> _color,
                             size |-> fontSize, code |-> _colorCode,
                             margin |-> _marginTop]))]

\* a loop runs an iteration on the state e the iterations before it have
\* left: e is complete before rest is evaluated
Then(e, rest) == IF Len(e.log) >= 0 THEN rest ELSE e

\* Array.isArray(line.value) ? line.value : [line.value]
ValuesOf(value) == IF value.t = "array" THEN value.a ELSE <<value>>

\* _values.forEach((value) => this.setText(value, options)), from the k-th on
RECURSIVE SetValues(_, _, _, _, _, _)
SetValues(e, values, k, o, site, ctx) ==
    IF k > Len(values) THEN e
    ELSE Then(e,
         SetValues(SetText(e, values[k], o, site, ctx), values, k + 1, o, site, ctx))

\* this.options.data.invoice.header.forEach(...), from index on (0-based)
RECURSIVE HeaderLines(_, _, _)
HeaderLines(e, lines, index) ==
    IF index >= Len(lines) THEN e
    ELSE Then(e,
         LET line == lines[index + 1]
             ctx == [Ctx("header") EXCEPT !.row = index]
             e1 == SetText(e,
                     Str(IF Len(line.label) > 0 THEN line.label \o <<":">> ELSE <<>>),
                     [NoOptions EXCEPT !.fontWeight = "bold",
                                       !.color = Style.header.regularColor,
                                       !.marginTop = IF index > 0 THEN Pt(4) ELSE 0],
                     "header.label", ctx)
             e2 == SetValues(e1, ValuesOf(line.value), 1,
                     [NoOptions EXCEPT !.colorCode = "secondary",
                                       !.color = Style.header.secondaryColor,
                                       !.marginTop = Pt(4)],
                     "header.value", ctx)
         IN  HeaderLines(e2, lines, index + 1))

\* generateHeader()
GenerateHeader(e) ==
    LET ctx == Ctx("header")
        e2 == [e EXCEPT !.fillColor = Style.header.backgroundColor,
                        !.log = Append(e.log,
                            Event("rect", "header.band", ctx, e.y, e.x, e.y, 0,
                                  [Settings(e) EXCEPT !.color = Style.header.backgroundColor]))]
        e3 == SetText(e2, Str(e.data.name),
                [NoOptions EXCEPT !.fontSize = "title", !.fontWeight = "bold",
                                  !.color = Style.header.regularColor],
                "header.title", ctx)
        e4 == MoveTo(e3, Style.header.textPosition, MarginTop, "header.lines", ctx)
        e5 == HeaderLines(e4, e.data.header, 0)
    IN  MoveTo(e5, MarginLeft, Style.header.height + Pt(18), "header.end", ctx)

\* !entity: a block that was never set is undefined; a list, also an empty
\* one, is truthy
NotSet(entity) == ~entity.defined

\* this.storage[type].height = this.document.y
StoreHeightTwice(e, type) ==
    Access(Access([e EXCEPT !.storage = [e.storage EXCEPT ![type] = [height |-> e.y]]],
                  "write", type, type),
           "write", type, type)
StoreHeight(e, type) ==
    Access([e EXCEPT !.storage = [e.storage EXCEPT ![type] = [height |-> e.y]]],
           "write", type, type)

\* entity.forEach(...), from the k-th line on
RECURSIVE DetailLines(_, _, _, _)
DetailLines(e, entity, k, ctx) ==
    IF k > Len(entity) THEN e
    ELSE Then(e,
         LET line == entity[k]
             _maxWidth == Pt(250)
             _fontMargin == Pt(4)
             c == [ctx EXCEPT !.row = k]
             e1 == SetText(e,
                     Str(IF line.label # <<" ">> THEN line.label \o <<":">> ELSE <<" ">>),
                     [NoOptions EXCEPT !.colorCode = "primary", !.fontWeight = "bold",
                                       !.marginTop = Pt(8), !.maxWidth = _maxWidth],
                     "details.label", c)
             e2 == SetValues(e1, ValuesOf(line.value), 1,
                     [NoOptions EXCEPT !.colorCode = "secondary",
                                       !.marginTop = _fontMargin, !.maxWidth = _maxWidth],
                     "details.value", c)
         IN  DetailLines(e2, entity, k + 1, ctx))

\* generateDetails(entity, type)
GenerateDetails(e, entity, type) ==
    LET ctx == Ctx(type)
    IN  IF NotSet(entity)
        THEN MoveTo(e, MarginLeft, Style.header.height + Pt(18), "details.absent", ctx)
        ELSE LET e1 == IF type = "customer"
                       THEN MoveTo(e, MarginLeft, Style.header.height + Pt(18),
                                   "details.start", ctx)
                       ELSE MoveTo(e, Style.header.textPosition,
                                   Style.header.height + Pt(18), "details.start", ctx)
                 e2 == DetailLines(e1, entity.lines, 1, ctx)
             IN  StoreHeight(e2, type)

\* maxRowHeight = Math.max(maxRowHeight, this.document.y - rowTop)
RowHeightLast(maxRowHeight, y, rowTop) == y - rowTop
RowHeight(maxRowHeight, y, rowTop) == Max(maxRowHeight, y - rowTop)

RECURSIVE TrimStart(_)
TrimStart(s) == IF s # <<>> /\ s[1] = " " THEN TrimStart(SubSeq(s, 2, Len(s))) ELSE s
Trim(s) == TrimStart(TrimEnd(s))

\* a cell of a row, with the fields a caller may leave out
Cell(value) == [value |-> value, price |-> FALSE, subtext |-> <<>>, subitems |-> <<>>]

RECURSIVE GenerateTableRow(_, _, _, _, _)
RECURSIVE RowColumns(_, _, _, _, _, _)
RECURSIVE SubItems(_, _, _, _)
RECURSIVE SubItemsAsRows(_, _, _, _)

\* where the column at index (0-based) of a row of length columns goes, and
\* the maxWidth and the align it gets: if (index === 0) ... else if
\* (columns.length > 2 && index == 1) ... else ...
PlaceMiddle(st, length, index) ==
    IF index = 0
    THEN [x |-> st.start, maxWidth |-> st.maxWidth, align |-> "left"]
    ELSE IF index < length - 1
    THEN [x |-> Style.table.quantity.position,
          maxWidth |-> Style.table.quantity.maxWidth, align |-> "left"]
    ELSE [x |-> Style.table.total.position,
          maxWidth |-> Style.table.total.maxWidth, align |-> "right"]
Place(st, length, index) ==
    IF index = 0
    THEN [x |-> st.start, maxWidth |-> st.maxWidth, align |-> "left"]
    ELSE IF length > 2 /\ index = 1
    THEN [x |-> Style.table.quantity.position,
          maxWidth |-> Style.table.quantity.maxWidth, align |-> "left"]
    ELSE [x |-> Style.table.total.position,
          maxWidth |-> Style.table.total.maxWidth, align |-> "right"]

\* column.subitems.forEach(...), from the j-th sub-item on
SubItemsAsRows(e, subitems, j, ctx) ==
    IF j > Len(subitems) THEN e
    ELSE Then(e,
         LET subitem == subitems[j]
             c == [ctx EXCEPT !.sub = j]
             e1 == GenerateTableRow(e, "subrow",
                     <<Cell(subitem.description), Cell(subitem.date),
                       [Cell(subitem.price) EXCEPT !.price = TRUE]>>,
                     e.y, c)
             e2 == MoveDown(e1, 1, 4, "row.subitem.gap", c)
         IN  SubItemsAsRows(e2, subitems, j + 1, ctx))
SubItems(e, subitems, j, ctx) ==
    IF j > Len(subitems) THEN e
    ELSE Then(e,
         LET subitem == subitems[j]
             c == [ctx EXCEPT !.sub = j]
             e1 == GenerateTableRow(e, "subitem",
                     <<Cell(subitem.description), Cell(subitem.date),
                       [Cell(subitem.price) EXCEPT !.price = TRUE]>>,
                     e.y, c)
             e2 == MoveDown(e1, 1, 4, "row.subitem.gap", c)
         IN  SubItems(e2, subitems, j + 1, ctx))

\* columns.forEach((column, index) => ...), from index on (0-based); st holds
\* the engine and the locals start, maxWidth and maxRowHeight
RowColumns(st, type, columns, index, rowTop, ctx) ==
    IF index >= Len(columns) THEN st
    ELSE Then(st.e,
         LET column == columns[index + 1]
             c == IF type = "subitem" THEN [ctx EXCEPT !.scol = index]
                                      ELSE [ctx EXCEPT !.col = index]
             place == Place(st, Len(columns), index)
             e1 == MoveTo(st.e, place.x, rowTop, "row.column", c)
             _value == IF column.price
                       THEN Str(PrettyPrice(column.value, e1.data.currency))
                       ELSE column.value
             e2 == SetText(e1, _value,
                     [NoOptions EXCEPT
                        !.colorCode = IF type = "subitem" THEN "secondary" ELSE "primary",
                        !.maxWidth = place.maxWidth,
                        !.fontWeight = IF type = "header" THEN "bold" ELSE "normal",
                        !.align = IF column.price THEN "right" ELSE place.align],
                     "row.text", c)
             e3 == IF column.subtext # <<>>
                   THEN SetText(MoveDown(e2, 1, 2, "row.subtext.gap", c),
                          Str(Trim(column.subtext)),
                          [NoOptions EXCEPT
                             !.colorCode = "secondary", !.maxWidth = place.maxWidth,
                             !.fontWeight = IF type = "header" THEN "bold" ELSE "normal"],
                          "row.subtext", c)
                   ELSE e2
             e4 == IF Len(column.subitems) > 0
                   THEN SubItems(MoveDown(e3, 1, 2, "row.subitems.gap", c),
                                 column.subitems, 1, c)
                   ELSE e3
         IN  RowColumns([e |-> e4,
                         start |-> st.start + place.maxWidth + Pt(10),
                         maxWidth |-> place.maxWidth,
                         maxRowHeight |-> RowHeight(st.maxRowHeight, e4.y, rowTop)],
                        type, columns, index + 1, rowTop, ctx))

\* generateTableRow(type, columns, rowTop)
GenerateTableRowRewind(e, type, columns, rowTop, ctx) ==
    LET start == MarginLeft
        maxWidth == Divide(start + PageWidth - MarginRight, Len(columns) - 2)
        st == RowColumns([e |-> e, start |-> start, maxWidth |-> maxWidth,
                          maxRowHeight |-> 0],
                         type, columns, 0, rowTop, ctx)
    IN  MoveTo(st.e, MarginLeft, rowTop, "row.end", ctx)
GenerateTableRow(e, type, columns, rowTop, ctx) ==
    LET start == MarginLeft
        maxWidth == Divide(start + PageWidth - MarginRight, Len(columns) - 2)
        st == RowColumns([e |-> e, start |-> start, maxWidth |-> maxWidth,
                          maxRowHeight |-> 0],
                         type, columns, 0, rowTop, ctx)
    IN  MoveTo(st.e, MarginLeft, rowTop + st.maxRowHeight, "row.end", ctx)

\* generateLine()
GenerateLineBlank(e, ctx) ==
    MoveDown(MoveDown(e, 4, 10, "line.before", ctx), 6, 10, "line.after", ctx)
GenerateLine(e, ctx) ==
    LET e1 == MoveDown(e, 4, 10, "line.before", ctx)
        lineY == e1.y - Pt(1)
        e2 == [e1 EXCEPT !.log = Append(e1.log,
                 Event("line", "line", ctx, e1.y, e1.x, e1.y, lineY, Settings(e1)))]
    IN  MoveDown(e2, 6, 10, "line.after", ctx)

\* the reads of this.storage that generateLineItems makes, in the order of
\* evaluation: || does not evaluate its right side when the left side holds
StorageReads(storage) ==
    <<"customer">>
      \o (IF storage.customer.height > 0 THEN <<>> ELSE <<"seller">>)
      \o (IF storage.customer.height > 0 \/ storage.seller.height > 0
          THEN <<"customer", "seller">> ELSE <<>>)

RECURSIVE LogReads(_, _, _)
LogReads(e, keys, k) ==
    IF k > Len(keys) THEN e
    ELSE Then(e,
         LogReads(Access(e, "read", keys[k], "lineItems"), keys, k + 1))

\* let startY = ...; if (...) startY = Math.max(...) + 18
StartYSeller(storage) ==
    IF storage.customer.height > 0 \/ storage.seller.height > 0
    THEN storage.seller.height + Pt(18)
    ELSE Style.header.height + Pt(18)
StartYGap(storage) ==
    IF storage.customer.height > 0 \/ storage.seller.height > 0
    THEN Max(storage.customer.height, storage.seller.height) + Pt(18)
    ELSE Style.header.height + Pt(18) + Pt(18)
StartY(storage) ==
    IF storage.customer.height > 0 \/ storage.seller.height > 0
    THEN Max(storage.customer.height, storage.seller.height) + Pt(18)
    ELSE Style.header.height + Pt(18)

\* lineItems.forEach(...), from the k-th item on
RECURSIVE ItemRowsReversed(_, _, _)
ItemRowsReversed(e, lineItems, k) ==
    IF k > Len(lineItems) THEN e
    ELSE Then(e,
         LET ctx == [Ctx("lineItems") EXCEPT !.row = k]
             e1 == GenerateTableRow(e, "row", lineItems[Len(lineItems) + 1 - k], e.y, ctx)
         IN  ItemRowsReversed(GenerateLine(e1, ctx), lineItems, k + 1))
RECURSIVE ItemRows(_, _, _)
ItemRows(e, lineItems, k) ==
    IF k > Len(lineItems) THEN e
    ELSE Then(e,
         LET ctx == [Ctx("lineItems") EXCEPT !.row = k]
             e1 == GenerateTableRow(e, "row", lineItems[k], e.y, ctx)
         IN  ItemRows(GenerateLine(e1, ctx), lineItems, k + 1))

\* generateLineItems(lineItems)
GenerateLineItems(e, lineItems) ==
    LET ctx == Ctx("lineItems")
        e1 == LogReads(e, StorageReads(e.storage), 1)
        e2 == MoveTo(e1, MarginLeft, StartY(e.storage), "lineItems.start", ctx)
        e3 == GenerateTableRow(e2, "header", e.data.detailsHeader, e2.y, ctx)
        e4 == GenerateLine(e3, ctx)
        e5 == ItemRows(e4, lineItems, 1)
    IN  MoveDown(e5, 1, 2, "lineItems.end", ctx)

\* totals.forEach(...), from the k-th entry on
RECURSIVE GenerateTotalsRaw(_, _, _)
GenerateTotalsRaw(e, totals, k) ==
    IF k > Len(totals) THEN e
    ELSE Then(e,
         LET total == totals[k]
             ctx == [Ctx("totals") EXCEPT !.row = k]
             rowTop == e.y + Pt(12)
             e1 == MoveTo(e, Style.table.quantity.position, rowTop, "totals.label", ctx)
             e2 == SetText(e1, Str(total.label),
                     [NoOptions EXCEPT !.colorCode = "primary", !.fontWeight = "bold",
                                       !.maxWidth = Style.table.quantity.maxWidth],
                     "totals.label", ctx)
             e3 == MoveTo(e2, Style.table.total.position, rowTop, "totals.value",
                          [ctx EXCEPT !.col = 1])
             _value == total.value
             e4 == SetText(e3, _value,
                     [NoOptions EXCEPT !.colorCode = "primary", !.fontWeight = "bold",
                                       !.maxWidth = Style.table.total.maxWidth,
                                       !.align = IF total.price THEN "right" ELSE "left"],
                     "totals.value", [ctx EXCEPT !.col = 1])
             e5 == MoveDown(e4, 1, 1, "totals.gap", ctx)
         IN  GenerateTotalsRaw(e5, totals, k + 1))
RECURSIVE GenerateTotalsStacked(_, _, _)
GenerateTotalsStacked(e, totals, k) ==
    IF k > Len(totals) THEN e
    ELSE Then(e,
         LET total == totals[k]
             ctx == [Ctx("totals") EXCEPT !.row = k]
             rowTop == e.y + Pt(12)
             e1 == MoveTo(e, Style.table.quantity.position, rowTop, "totals.label", ctx)
             e2 == SetText(e1, Str(total.label),
                     [NoOptions EXCEPT !.colorCode = "primary", !.fontWeight = "bold",
                                       !.maxWidth = Style.table.quantity.maxWidth],
                     "totals.label", ctx)
             e3 == MoveTo(e2, Style.table.total.position, e2.y, "totals.value",
                          [ctx EXCEPT !.col = 1])
             _value == IF total.price
                       THEN Str(PrettyPrice(total.value, e.data.currency))
                       ELSE total.value
             e4 == SetText(e3, _value,
                     [NoOptions EXCEPT !.colorCode = "primary", !.fontWeight = "bold",
                                       !.maxWidth = Style.table.total.maxWidth,
                                       !.align = IF total.price THEN "right" ELSE "left"],
                     "totals.value", [ctx EXCEPT !.col = 1])
             e5 == MoveDown(e4, 1, 1, "totals.gap", ctx)
         IN  GenerateTotalsStacked(e5, totals, k + 1))
RECURSIVE GenerateTotalsFrom(_, _, _)
GenerateTotalsFrom(e, totals, k) ==
    IF k > Len(totals) THEN e
    ELSE Then(e,
         LET total == totals[k]
             ctx == [Ctx("totals") EXCEPT !.row = k]
             rowTop == e.y + Pt(12)
             e1 == MoveTo(e, Style.table.quantity.position, rowTop, "totals.label", ctx)
             e2 == SetText(e1, Str(total.label),
                     [NoOptions EXCEPT !.colorCode = "primary", !.fontWeight = "bold",
                                       !.maxWidth = Style.table.quantity.maxWidth],
                     "totals.label", ctx)
             e3 == MoveTo(e2, Style.table.total.position, rowTop, "totals.value",
                          [ctx EXCEPT !.col = 1])
             _value == IF total.price
                       THEN Str(PrettyPrice(total.value, e.data.currency))
                       ELSE total.value
             e4 == SetText(e3, _value,
                     [NoOptions EXCEPT !.colorCode = "primary", !.fontWeight = "bold",
                                       !.maxWidth = Style.table.total.maxWidth,
                                       !.align = IF total.price THEN "right" ELSE "left"],
                     "totals.value", [ctx EXCEPT !.col = 1])
             e5 == MoveDown(e4, 1, 1, "totals.gap", ctx)
         IN  GenerateTotalsFrom(e5, totals, k + 1))

\* generateTotals(totals)
GenerateTotals(e, totals) == GenerateTotalsFrom(e, totals, 1)

\* legal.forEach(...), from the k-th line on
RECURSIVE LegalLines(_, _, _)
LegalLines(e, legal, k) ==
    IF k > Len(legal) THEN e
    ELSE Then(e,
         LET ctx == [Ctx("legal") EXCEPT !.row = k]
             e1 == SetText(e, Str(legal[k].value),
                     [NoOptions EXCEPT
                        !.fontWeight = legal[k].weight,
                        !.colorCode = IF legal[k].color # "" THEN legal[k].color
                                                           ELSE "primary",
                        !.align = "left", !.marginTop = Pt(10)],
                     "legal.line", ctx)
         IN  LegalLines(e1, legal, k + 1))

\* generateLegal(legal)
GenerateLegal(e, legal) ==
    LegalLines(MoveTo(e, MarginLeft, e.y + Pt(30), "legal.start", Ctx("legal")),
               legal, 1)

\* legal ?? []
OrDefault(legal) ==
    IF legal.defined THEN legal.lines
    ELSE <<[value |-> <<"-">>, weight |-> "normal", color |-> ""]>>
OrEmpty(legal) == IF legal.defined THEN legal.lines ELSE <<>>

\* this.document.end()
EndDocument(e) ==
    [e EXCEPT !.ended = TRUE,
              !.log = Append(e.log, Event("end", "end", Ctx("end"), e.y, e.x, e.y, e.y, Settings(e)))]

\* the statement of generate() that follows the one at pc
AfterSwapped(at) ==
    CASE at = "generateHeader" -> "generateCustomer"
      [] at = "generateCustomer" -> "generateSeller"
      [] at = "generateSeller" -> "generateTotals"
      [] at = "generateTotals" -> "generateLineItems"
      [] at = "generateLineItems" -> "generateLegal"
      [] at = "generateLegal" -> "end"
      [] at = "end" -> "done"
After(at) ==
    CASE at = "generateHeader" -> "generateCustomer"
      [] at = "generateCustomer" -> "generateSeller"
      [] at = "generateSeller" -> "generateLineItems"
      [] at = "generateLineItems" -> "generateTotals"
      [] at = "generateTotals" -> "generateLegal"
      [] at = "generateLegal" -> "end"
      [] at = "end" -> "done"

----------------------------------------------------------------------------
(* The documents the model generates *)

\* line items per document
MaxItems == 2
\* sub-items of a cell
MaxSubItems == 2
\* lines of a party block
MaxPartyLines == 2
\* entries of the totals block
MaxTotals == 2
\* lines of legal text
MaxLegal == 1

EUR == <<"E", "U", "R">>
USD == <<"U", "S", "D">>

\* the width of a glyph at any font size: a narrow and a wide font, the wide
\* one making the texts below wrap in the table's columns
CharWidths == {Pt(6), Pt(60)}

\* the options of createReceipt(charge, receiptNumber) and of
\* createReceipt(payout, payoutNumber): the header lines take both branches of
\* generateHeader (empty label, list value), and the payout id is long enough
\* for the wide font to carry the header below its band
ReceiptData ==
    [name |-> <<"R", "e", "c", "e", "i", "p", "t">>,
     header |-> << [label |-> <<"N", "o">>, value |-> Num(1)],
                   [label |-> <<"I", "D">>, value |-> Str(<<"c", "h", "_", "1">>)],
                   [label |-> <<>>,
                    value |-> Arr(<<Str(<<"2", "0", "2", "4">>), Str(<<"M", "a", "y">>)>>)] >>,
     currency |-> Str(EUR),
     detailsHeader |-> << Cell(Str(<<"D", "e", "s", "c">>)), Cell(Str(<<"Q", "t", "y">>)),
                          Cell(Str(<<"A", "m", "o", "u", "n", "t">>)) >>]
PayoutData ==
    [name |-> <<"P", "a", "y", "o", "u", "t">>,
     header |-> << [label |-> <<"N", "o">>, value |-> Num(7)],
                   [label |-> <<"I", "D">>,
                    value |-> Str(<<"p", "o", "_", "1", "N", "Q", "x", "4", "L", "2", "e",
                                    "Z", "v", "K", "Y", "l", "o", "2", "C", "a", "B", "c",
                                    "D", "e", "F", "g", "H">>)] >>,
     currency |-> Str(USD),
     detailsHeader |-> << Cell(Str(<<"D", "e", "s", "c">>)),
                          Cell(Str(<<"A", "m", "o", "u", "n", "t">>)) >>]

\* the i-th line of a party block: an address list, a scalar, a blank label
PartyAt(i) ==
    IF i % 3 = 1
    THEN [label |-> <<"T", "o">>,
          value |-> Arr(<<Str(<<"A", "n", "n">>), Str(<<"1", " ", "M", "a", "i", "n">>)>>)]
    ELSE IF i % 3 = 2
    THEN [label |-> <<"M", "a", "i", "l">>, value |-> Str(<<"a", "@", "b">>)]
    ELSE [label |-> <<" ">>, value |-> Str(<<"x">>)]
RECURSIVE PartyLines(_)
PartyLines(k) == IF k = 0 THEN <<>> ELSE Append(PartyLines(k - 1), PartyAt(k))
NoParty == [defined |-> FALSE, lines |-> <<>>]

SubItemAt(j) ==
    [description |-> Str(<<"f", "e", "e">>), date |-> Str(<<"0", "5", "-", "0", "1">>),
     price |-> Num(125 * j)]
RECURSIVE SubItemList(_)
SubItemList(k) == IF k = 0 THEN <<>> ELSE Append(SubItemList(k - 1), SubItemAt(k))

\* options that follow this.defaultOptions.data: one header line, no
\* currency, three columns; the first column's header cell has sub-items
StatementData ==
    [name |-> <<"I", "n", "v", "o", "i", "c", "e">>,
     header |-> << [label |-> <<"N", "o">>, value |-> Num(1)] >>,
     currency |-> Undefined,
     detailsHeader |-> << [Cell(Str(<<"D", "e", "s", "c">>)) EXCEPT
                              !.subitems = SubItemList(MaxSubItems)],
                          Cell(Str(<<"Q", "t", "y">>)),
                          Cell(Str(<<"S", "u", "m">>)) >>]
\* the documents and the font each is set in: a receipt in either font, a
\* payout in the wide one, the third document in the narrow one
Documents ==
    {[data |-> ReceiptData, charWidth |-> w] : w \in CharWidths}
    \cup {[data |-> PayoutData, charWidth |-> Pt(60)],
          [data |-> StatementData, charWidth |-> Pt(6)]}

\* a receipt row, a payout row with sub-items, a row whose first cell has
\* a subtext and sub-items, and a row of four cells
PlainRow ==
    << Cell(Str(<<"W", "i", "d", "g", "e", "t">>)), Cell(Num(1)),
       [Cell(Num(500)) EXCEPT !.price = TRUE] >>
PayoutRow ==
    << [Cell(Str(<<"C", "h", "a", "r", "g", "e", "s">>)) EXCEPT
            !.subitems = SubItemList(MaxSubItems)],
       [Cell(Num(1250)) EXCEPT !.price = TRUE] >>
RichRow ==
    << [Cell(Str(<<"P", "l", "a", "n">>)) EXCEPT
            !.subtext = <<" ", "M", "a", "y", " ", "t", "o", " ", "J", "u", "n", "e", " ">>,
            !.subitems = SubItemList(MaxSubItems)],
       Cell(Num(1)),
       [Cell(Str(<<"N", "/", "A">>)) EXCEPT !.price = TRUE] >>
WideRow ==
    << Cell(Str(<<"S", "e", "t", "u", "p">>)),
       [Cell(Num(125)) EXCEPT !.price = TRUE],
       Cell(Str(<<"x", " ", "2">>)),
       [Cell(Num(250)) EXCEPT !.price = TRUE] >>
RowChoices == << PayoutRow, RichRow, PlainRow, WideRow >>

\* the line items of a document: n rows taken in turn from the rows above,
\* starting with any of them, or fewer rows starting with the first
RowAt(i) == RowChoices[((i - 1) % Len(RowChoices)) + 1]
RECURSIVE RowsFrom(_, _)
RowsFrom(first, k) ==
    IF k = 0 THEN <<>> ELSE Append(RowsFrom(first, k - 1), RowAt(first + k - 1))
RowLists(n) ==
    {RowsFrom(first, n) : first \in 1..Len(RowChoices)} \cup {RowsFrom(1, k) : k \in 0..n}

TotalAt(i) ==
    IF i % 2 = 1
    THEN [label |-> <<"T", "o", "t", "a", "l", " ", "P", "a", "i", "d">>,
          value |-> Num(500), price |-> TRUE]
    ELSE [label |-> <<"V", "A", "T">>, value |-> Str(<<"n", "o", "n", "e">>),
          price |-> FALSE]
RECURSIVE TotalList(_)
TotalList(k) == IF k = 0 THEN <<>> ELSE Append(TotalList(k - 1), TotalAt(k))

LegalAt(i) ==
    IF i % 2 = 1
    THEN [value |-> <<"N", "o", " ", "V", "A", "T">>, weight |-> "bold", color |-> ""]
    ELSE [value |-> <<"R", "e", "f">>, weight |-> "normal", color |-> "primary"]
RECURSIVE LegalList(_)
LegalList(k) == IF k = 0 THEN <<>> ELSE Append(LegalList(k - 1), LegalAt(k))

\* a total whose label is longer than its value
WordyTotal ==
    [label |-> <<"V", "A", "T", " ", "n", "o", "t", " ", "c", "h", "a", "r", "g", "e", "d">>,
     value |-> Str(<<"n", "/", "a">>), price |-> FALSE]

NoArgs == [lineItems |-> <<>>, totals |-> <<>>, legal |-> [defined |-> FALSE, lines |-> <<>>]]

\* the totals and the legal text of one call: a payout passes totals and no
\* legal text, a receipt passes its total and a list of legal lines
Closings ==
    {[totals |-> TotalList(t), legal |-> NoArgs.legal] : t \in 0..MaxTotals}
    \cup {[totals |-> TotalList(1), legal |-> [defined |-> TRUE, lines |-> LegalList(k)]] :
             k \in 0..MaxLegal}
    \cup {[totals |-> <<WordyTotal, TotalAt(1)>>, legal |-> NoArgs.legal]}

----------------------------------------------------------------------------
(* One engine instance: construction, the setters, and generate() *)

\* new Invoice(options) on a fresh canvas
NewInvoice(data, charWidth) ==
    [data |-> data, customer |-> NoParty, business |-> NoParty,
     storage |-> [customer |-> [height |-> 0], seller |-> [height |-> 0]],
     x |-> MarginLeft, y |-> MarginTop,
     font |-> "Helvetica", fillColor |-> "black", fontSize |-> 12,
     ended |-> FALSE, charWidth |-> charWidth, log |-> <<>>]

\* a tool the command line has not started
Unused == [pc |-> "none"]
\* no second instance exists
NoTwin == [pc |-> "none", engine |-> NewInvoice(PayoutData, Pt(6)), stages |-> <<>>]

Init ==
    /\ pc = "new"
    /\ engine \in {NewInvoice(d.data, d.charWidth) : d \in Documents}
    /\ args = NoArgs
    /\ stages = <<>>
    /\ pValue = Undefined /\ pCurrency = Undefined /\ pResult = <<>>
    /\ twin = NoTwin
    /\ run = Unused /\ addr = Unused /\ months = Unused /\ payout = Unused

\* setCustomer(customer)
SetCustomer ==
    /\ pc = "new" /\ ~engine.customer.defined
    /\ \E k \in 0..MaxPartyLines :
          engine' = [engine EXCEPT !.customer = [defined |-> TRUE, lines |-> PartyLines(k)]]
    /\ UNCHANGED <<pc, args, stages, pValue, pCurrency, pResult, twin, run, addr, months, payout>>

\* setBusiness(business), with an empty list or a block of one line
SetBusiness ==
    /\ pc = "new" /\ ~engine.business.defined
    /\ \E lines \in {PartyLines(0), PartyLines(1)} :
          engine' = [engine EXCEPT !.business = [defined |-> TRUE, lines |-> lines]]
    /\ UNCHANGED <<pc, args, stages, pValue, pCurrency, pResult, twin, run, addr, months, payout>>

\* generate({ lineItems, totals, legal }) is called
CallGenerate ==
    /\ pc = "new"
    /\ \E items \in RowLists(MaxItems), c \in Closings :
          args' = [lineItems |-> items, totals |-> c.totals, legal |-> c.legal]
    /\ pc' = "generateHeader"
    /\ UNCHANGED <<engine, stages, pValue, pCurrency, pResult, twin, run, addr, months, payout>>

\* one statement of generate(): it runs to its end before the next one starts
Stage(at, name, after) ==
    /\ pc = at
    /\ engine' = after
    /\ stages' = Append(stages, name)
    /\ pc' = After(at)
    /\ UNCHANGED <<args, pValue, pCurrency, pResult, twin, run, addr, months, payout>>

StepHeader == Stage("generateHeader", "header", GenerateHeader(engine))
StepCustomer ==
    Stage("generateCustomer", "customer", GenerateDetails(engine, engine.customer, "customer"))
StepSeller ==
    Stage("generateSeller", "seller", GenerateDetails(engine, engine.business, "seller"))
StepLineItems ==
    Stage("generateLineItems", "lineItems", GenerateLineItems(engine, args.lineItems))
StepTotals == Stage("generateTotals", "totals", GenerateTotals(engine, args.totals))
StepLegal == Stage("generateLegal", "legal", GenerateLegal(engine, OrEmpty(args.legal)))
\* getStreamAsBuffer(this.document); this.document.end()
StepEnd == Stage("end", "end", EndDocument(engine))

Next ==
    \/ SetCustomer
    \/ SetBusiness
    \/ CallGenerate
    \/ StepHeader
    \/ StepCustomer
    \/ StepSeller
    \/ StepLineItems
    \/ StepTotals
    \/ StepLegal
    \/ StepEnd

Spec == Init /\ [][Next]_vars

----------------------------------------------------------------------------
(* Two instances built from equal options and run with equal arguments *)

\* the statement of generate() at position at, run on the instance e
RunStage(at, e, a) ==
    CASE at = "generateHeader" -> GenerateHeader(e)
      [] at = "generateCustomer" -> GenerateDetails(e, e.customer, "customer")
      [] at = "generateSeller" -> GenerateDetails(e, e.business, "seller")
      [] at = "generateLineItems" -> GenerateLineItems(e, a.lineItems)
      [] at = "generateTotals" -> GenerateTotals(e, a.totals)
      [] at = "generateLegal" -> GenerateLegal(e, OrEmpty(a.legal))
      [] at = "end" -> EndDocument(e)

\* this.document and this.storage of the second instance: the constructor
\* gives each instance its own
OtherState(t) == [t.engine EXCEPT !.storage = engine.storage]
OwnState(t) == t.engine

\* the party blocks the two instances are given
TwinParties ==
    {[customer |-> c, business |-> b] :
        c \in {NoParty, [defined |-> TRUE, lines |-> PartyLines(MaxPartyLines)]},
        b \in {NoParty, [defined |-> TRUE, lines |-> PartyLines(1)]}}

\* new Invoice(options).setCustomer(c).setBusiness(b), twice, and the
\* arguments both generate() calls get
InitTwin ==
    /\ pc = "generateHeader"
    /\ engine \in {[NewInvoice(d.data, d.charWidth) EXCEPT
                       !.customer = p.customer, !.business = p.business] :
                      d \in Documents, p \in TwinParties}
    /\ twin = [pc |-> "generateHeader", engine |-> engine, stages |-> <<>>]
    /\ args \in {[lineItems |-> items, totals |-> c.totals, legal |-> c.legal] :
                    items \in RowLists(MaxItems), c \in Closings}
    /\ stages = <<>>
    /\ pValue = Undefined /\ pCurrency = Undefined /\ pResult = <<>>
    /\ run = Unused /\ addr = Unused /\ months = Unused /\ payout = Unused

\* generate() is synchronous: a call runs from its first statement to its
\* last before the other instance's call runs
Idle(at) == at \in {"generateHeader", "done"}

\* the position in generate() and the state of the first or second instance
Position(second) == IF second THEN twin.pc ELSE pc
Instance(second) == IF second THEN OwnState(twin) ELSE engine

\* the statement's effect is stored in the instance that ran it
Commit(second, at, after) ==
    IF second
    THEN /\ twin' = [pc |-> After(at), engine |-> after,
                     stages |-> Append(twin.stages, at)]
         /\ UNCHANGED <<pc, engine, stages>>
    ELSE /\ engine' = after
         /\ stages' = Append(stages, at)
         /\ pc' = After(at)
         /\ UNCHANGED twin

\* the next statement of one instance's generate()
TwinStep ==
    \E second \in BOOLEAN :
        /\ Position(second) # "done"
        /\ Idle(Position(~second))
        /\ Commit(second, Position(second),
                  RunStage(Position(second), Instance(second), args))
        /\ UNCHANGED <<args, pValue, pCurrency, pResult, run, addr, months, payout>>

NextTwin == TwinStep

SpecTwin == InitTwin /\ [][NextTwin]_vars

----------------------------------------------------------------------------
(* The price formatter applied to bounded inputs *)

Chars == {"N", "/", "A", " "}
RECURSIVE StringsUpTo(_)
StringsUpTo(n) == IF n = 0 THEN {<<>>}
                  ELSE LET S == StringsUpTo(n - 1)
                       IN  S \cup {Append(s, c) : s \in {t \in S : Len(t) = n - 1}, c \in Chars}

CurrencyCodes == {EUR, USD, <<"E","U"," ">>, <<" ">>}

InitPrice ==
    /\ pc = "price"
    /\ pValue \in {Num(n) : n \in ((0 - MaxCents)..MaxCents) \cup {123456}}
                  \cup {Str(s) : s \in StringsUpTo(MaxStrLen)}
    /\ pCurrency \in {Undefined, Str(<<>>)} \cup {Str(c) : c \in CurrencyCodes}
    /\ pResult = <<>>
    /\ engine = NewInvoice(PayoutData, Pt(6))
    /\ args = NoArgs
    /\ stages = <<>>
    /\ twin = NoTwin
    /\ run = Unused /\ addr = Unused /\ months = Unused /\ payout = Unused

CallPrettyPrice ==
    /\ pc = "price"
    /\ pResult' = PrettyPrice(pValue, pCurrency)
    /\ pc' = "priced"
    /\ UNCHANGED <<pValue, pCurrency, engine, args, stages, twin, run, addr, months, payout>>

NextPrice == CallPrettyPrice

SpecPrice == InitPrice /\ [][NextPrice]_vars


----------------------------------------------------------------------------
(* getAddresses(billing_details, business) of createAndSaveReceipts.js *)

\* iterations of the padding loop the memory of the process has room for
MaxAddressLines == 8

\* a ?? b
Coalesce(a, b) == IF a.t = "undefined" THEN b ELSE a
\* address?.field
Optional(address, field) == IF address.defined THEN address[field] ELSE Undefined
\* array.filter((v) => !!v)
FilterTruthy(values) == SelectSeq(values, Truthy)

NewLine == Str(<<"\n">>)

\* the six candidate lines of the customer, filtered
CustomerAddress(billing_details) ==
    LET address == billing_details.address
    IN  FilterTruthy(<<
           Coalesce(billing_details.name, billing_details.email),
           Optional(address, "line1"),
           Optional(address, "line2"),
           Str(Trim(JsString(Coalesce(Optional(address, "postal_code"), Str(<<>>)))
                       \o <<" ">>
                       \o JsString(Coalesce(Optional(address, "city"), Str(<<>>))))),
           Optional(address, "state"),
           Optional(address, "country") >>)

\* the six candidate lines of the business, filtered; the last is "\n"
BusinessAddress(business) ==
    FilterTruthy(<<
       business.address_line_1,
       business.address_line_2,
       Str(Trim(JsString(business.postal_code) \o <<" ">> \o JsString(business.city))),
       business.state,
       business.country,
       NewLine >>)

\* n times "\n"
RECURSIVE EmptyLines(_)
EmptyLines(n) == IF n <= 0 THEN <<>> ELSE Append(EmptyLines(n - 1), NewLine)

\* what the call returns, if it does: the loop "while (n--)" ends only when
\* it finds n = 0, which a negative n never becomes
GetAddresses(billing_details, business) ==
    LET customerAddress == CustomerAddress(billing_details)
        businessAddress == BusinessAddress(business)
        customerAddressEmptyLines == Len(businessAddress) - Len(customerAddress)
    IN  [returns |-> customerAddressEmptyLines >= 0,
         customerAddress |-> customerAddress \o EmptyLines(customerAddressEmptyLines),
         businessAddress |-> businessAddress]

\* a field that is set or not
Maybe(s) == {Undefined, Str(s)}

NoAddress ==
    [defined |-> FALSE, line1 |-> Undefined, line2 |-> Undefined,
     postal_code |-> Undefined, city |-> Undefined, state |-> Undefined,
     country |-> Undefined]
Addresses ==
    {NoAddress}
    \cup {[defined |-> TRUE, line1 |-> l1, line2 |-> l2, postal_code |-> p,
           city |-> c, state |-> s, country |-> k] :
            l1 \in Maybe(<<"1", " ", "M", "a", "i", "n">>), l2 \in Maybe(<<"c", "/", "o">>),
            p \in Maybe(<<"1", "0", "1", "1", "5">>), c \in Maybe(<<"B", "e", "r", "l", "i", "n">>),
            s \in Maybe(<<"B", "E">>), k \in Maybe(<<"G", "e", "r", "m", "a", "n", "y">>)}
BillingDetails ==
    {[name |-> n, email |-> Str(<<"a", "@", "b">>), address |-> a] :
        n \in Maybe(<<"A", "n", "n">>), a \in Addresses}
Businesses ==
    {[address_line_1 |-> Str(<<"2", " ", "H", "i", "g", "h">>), address_line_2 |-> l2,
      postal_code |-> p, city |-> Str(<<"B", "o", "n", "n">>), state |-> s,
      country |-> Str(<<"G", "e", "r", "m", "a", "n", "y">>)] :
        l2 \in Maybe(<<"2", "n", "d">>), p \in Maybe(<<"5", "3", "1", "1", "1">>),
        s \in Maybe(<<"N", "W">>)}

InitAddresses ==
    /\ addr \in {[pc |-> "build", billing_details |-> b, business |-> c,
                  customerAddress |-> <<>>, businessAddress |-> <<>>,
                  customerAddressEmptyLines |-> 0] :
                    b \in BillingDetails, c \in Businesses}
    /\ pc = "none" /\ engine = NewInvoice(ReceiptData, Pt(6)) /\ args = NoArgs
    /\ stages = <<>> /\ twin = NoTwin
    /\ pValue = Undefined /\ pCurrency = Undefined /\ pResult = <<>>
    /\ run = Unused /\ months = Unused /\ payout = Unused

\* lines 12-34: the two filtered lists and their difference in length
BuildAddresses ==
    /\ addr.pc = "build"
    /\ addr' = [addr EXCEPT
                  !.pc = "test",
                  !.customerAddress = CustomerAddress(addr.billing_details),
                  !.businessAddress = BusinessAddress(addr.business),
                  !.customerAddressEmptyLines =
                      Len(BusinessAddress(addr.business))
                        - Len(CustomerAddress(addr.billing_details))]
    /\ UNCHANGED <<generator, run, months, payout>>

\* while (customerAddressEmptyLines--): the test reads the counter, then
\* decrements it
TestEmptyLines ==
    /\ addr.pc = "test"
    /\ addr' = [addr EXCEPT
                  !.pc = IF addr.customerAddressEmptyLines # 0 THEN "push" ELSE "return",
                  !.customerAddressEmptyLines = addr.customerAddressEmptyLines - 1]
    /\ UNCHANGED <<generator, run, months, payout>>

\* customerAddress.push("\n"), as long as the array can grow
PushEmptyLine ==
    /\ addr.pc = "push"
    /\ addr' = IF Len(addr.customerAddress) < MaxAddressLines
               THEN [addr EXCEPT !.pc = "test",
                                 !.customerAddress = Append(addr.customerAddress, NewLine)]
               ELSE [addr EXCEPT !.pc = "exhausted"]
    /\ UNCHANGED <<generator, run, months, payout>>

\* return { customerAddress, businessAddress }
ReturnAddresses ==
    /\ addr.pc = "return"
    /\ addr' = [addr EXCEPT !.pc = "returned"]
    /\ UNCHANGED <<generator, run, months, payout>>

NextAddresses ==
    \/ BuildAddresses
    \/ TestEmptyLines
    \/ PushEmptyLine
    \/ ReturnAddresses

SpecAddresses == InitAddresses /\ [][NextAddresses]_vars

----------------------------------------------------------------------------
(* getMonthPeriods() of date-fns.js *)

\* the current date ranges over the months of FirstYear and of the
\* MaxYears - 1 years after it
FirstYear == 2023
MaxYears == 2

IsLeapYear(year) == (year % 4 = 0 /\ year % 100 # 0) \/ year % 400 = 0
\* the number of days of a month (0-based)
DaysIn(year, month) ==
    IF month = 1 THEN (IF IsLeapYear(year) THEN 29 ELSE 28)
    ELSE IF month \in {3, 5, 8, 10} THEN 30 ELSE 31

\* the first day of a month, moved by a number of days (either sign)
RECURSIVE AddDays(_, _, _)
AddDays(year, month, days) ==
    IF days < 0
    THEN LET y == IF month = 0 THEN year - 1 ELSE year
             m == IF month = 0 THEN 11 ELSE month - 1
         IN  AddDays(y, m, days + DaysIn(y, m))
    ELSE IF days >= DaysIn(year, month)
    THEN LET y == IF month = 11 THEN year + 1 ELSE year
             m == IF month = 11 THEN 0 ELSE month + 1
         IN  AddDays(y, m, days - DaysIn(year, month))
    ELSE [year |-> year, month |-> month, day |-> days + 1]

\* new Date(year, monthIndex, day, hours) in local time: a month outside
\* 0..11 carries into the year, a day outside the month and an hour outside
\* 0..23 carry into the date
NewDate(year, monthIndex, day, hours) ==
    LET y == year + (monthIndex \div 12)
        m == monthIndex % 12
        d == AddDays(y, m, (day - 1) + (hours \div 24))
    IN  [year |-> d.year, month |-> d.month, day |-> d.day, hour |-> hours % 24]

\* startDate(year, month) and endDate(year, month)
startDate(year, month) == NewDate(year, month, 1, 0)
endDate(year, month) == NewDate(year, month, 0, 24)

InitMonths ==
    /\ months \in {[pc |-> "start", year |-> y, month |-> m, i |-> 0, periods |-> <<>>] :
                      y \in FirstYear..(FirstYear + MaxYears - 1), m \in 0..11}
    /\ pc = "none" /\ engine = NewInvoice(ReceiptData, Pt(6)) /\ args = NoArgs
    /\ stages = <<>> /\ twin = NoTwin
    /\ pValue = Undefined /\ pCurrency = Undefined /\ pResult = <<>>
    /\ run = Unused /\ addr = Unused /\ payout = Unused

\* lines 16-27: in January one period is pushed; in any other month the loop
\* starts with i = 6
StartPeriods ==
    /\ months.pc = "start"
    /\ months' = IF months.month = 0
                 THEN [months EXCEPT
                         !.pc = "current",
                         !.periods = Append(months.periods,
                                       [start |-> startDate(months.year - 1, 0 - 1),
                                        end |-> endDate(months.year, 0)])]
                 ELSE [months EXCEPT !.pc = "loop", !.i = 6]
    /\ UNCHANGED <<generator, run, addr, payout>>

\* one test of "i >= 0" and, if it holds, one iteration of the loop
LoopPeriods ==
    /\ months.pc = "loop"
    /\ months' = IF months.i >= 0
                 THEN [months EXCEPT
                         !.i = months.i - 1,
                         !.periods = Append(months.periods,
                                       [start |-> startDate(months.year,
                                                            months.month - months.i - 1),
                                        end |-> endDate(months.year,
                                                        months.month - months.i)])]
                 ELSE [months EXCEPT !.pc = "current"]
    /\ UNCHANGED <<generator, run, addr, payout>>

\* lines 36-41: the current month is pushed and the list returned
CurrentPeriod ==
    /\ months.pc = "current"
    /\ months' = [months EXCEPT
                    !.pc = "returned",
                    !.periods = Append(months.periods,
                                  [start |-> startDate(months.year, months.month),
                                   end |-> endDate(months.year, months.month + 1)])]
    /\ UNCHANGED <<generator, run, addr, payout>>

NextMonths ==
    \/ StartPeriods
    \/ LoopPeriods
    \/ CurrentPeriod

SpecMonths == InitMonths /\ [][NextMonths]_vars

----------------------------------------------------------------------------
(* payoutLineItems(transactions) of the payout receipts, in the version    *)
(* with four groups (part_004) and in the version with three (part_003)    *)

\* transactions of one payout
MaxTransactions == 3

\* string.startsWith(prefix)
StartsWith(s, prefix) ==
    Len(s) >= Len(prefix) /\ SubSeq(s, 1, Len(prefix)) = prefix
\* string.includes(part)
Includes(s, part) ==
    \E i \in 1..(Len(s) - Len(part) + 1) : SubSeq(s, i, i + Len(part) - 1) = part
\* string.replace(/\sfee$/, " fees"); the only white space in use is " "
ReplaceFee(s) ==
    IF Len(s) >= 4 /\ SubSeq(s, Len(s) - 3, Len(s)) = <<" ", "f", "e", "e">>
    THEN SubSeq(s, 1, Len(s) - 4) \o <<" ", "f", "e", "e", "s">>
    ELSE s
IsDigit(c) == c \in {"0", "1", "2", "3", "4", "5", "6", "7", "8", "9"}
\* the positions at which /(\d{4}-\d{2}-\d{2})/ matches
DateMatches(s) ==
    {i \in 1..(Len(s) - 9) :
        /\ \A k \in {0, 1, 2, 3, 5, 6, 8, 9} : IsDigit(s[i + k])
        /\ s[i + 4] = "-" /\ s[i + 7] = "-"}
\* the least element of a non-empty set of numbers
Least(S) == CHOOSE m \in S : \A n \in S : m <= n

\* a balance transaction as fetchBalanceTransactions hands it on
Tx(type, description, amount) ==
    [type |-> type, description |-> description, amount |-> amount,
     invoice |-> [id |-> Undefined, number |-> Undefined],
     customer |-> [defined |-> TRUE, name |-> Undefined, email |-> Str(<<"a">>)],
     date |-> Str(<<"0", "5", "-", "0", "1">>)]

\* subItemFor(tx), part_004; the result is null for no transaction, and the
\* call throws for a charge without a customer
SubItemFor(tx) ==
    IF tx.type = "refund"
    THEN [thrown |-> FALSE,
          item |-> [description |-> Str(<<"R", "e", "f", "u", "n", "d", ":", " ", "c", "h">>), date |-> tx.date,
                    price |-> Num(tx.amount)]]
    ELSE IF tx.type = "charge"
    THEN IF ~tx.customer.defined
         THEN [thrown |-> TRUE, item |-> Undefined]
         ELSE [thrown |-> FALSE,
               item |-> [description |->
                           IF Truthy(tx.invoice.id)
                           THEN Str(<<"S", "u", "b", "s", "c", "r", "i", "p", "t", "i", "o", "n", ":", " ">>
                                    \o JsString(Coalesce(tx.customer.name, tx.customer.email))
                                    \o <<",", " ">> \o JsString(tx.invoice.number))
                           ELSE Str(<<"P", "a", "y", "m", "e", "n", "t", ":", " ">>
                                    \o JsString(Coalesce(tx.customer.name, tx.customer.email))),
                         date |-> tx.date, price |-> Num(tx.amount)]]
    ELSE IF tx.type \in {"application_fee", "passthrough_fee", "stripe_fee"}
    THEN [thrown |-> FALSE,
          item |-> [description |-> Str(ReplaceFee(tx.description.s)), date |-> tx.date,
                    price |-> Num(tx.amount * (0 - 1))]]
    ELSE [thrown |-> FALSE,
          item |-> [description |-> tx.description, date |-> tx.date,
                    price |-> Num(tx.amount * (0 - 1))]]

\* subItemFor(tx), part_003: null (Undefined) for a transaction that is
\* neither a charge nor a stripe or application fee; the call throws for a
\* charge without a customer and for a fee without a description
SubItemFor003(tx) ==
    IF tx.type = "charge"
    THEN IF ~tx.customer.defined
         THEN [thrown |-> TRUE, item |-> Undefined]
         ELSE [thrown |-> FALSE,
               item |-> [description |->
                           IF Truthy(tx.invoice.id)
                           THEN Str(<<"S", "u", "b", "s", "c", "r", "i", "p", "t", "i", "o", "n", ":", " ">>
                                    \o JsString(Coalesce(tx.customer.name, tx.customer.email)))
                           ELSE Str(<<"P", "a", "y", "m", "e", "n", "t", ":", " ">>
                                    \o JsString(Coalesce(tx.customer.name, tx.customer.email))),
                         date |-> tx.date, price |-> Num(tx.amount)]]
    ELSE IF tx.type \in {"stripe_fee", "application_fee"}
    THEN IF tx.description.t # "string"
         THEN [thrown |-> TRUE, item |-> Undefined]
         ELSE [thrown |-> FALSE,
               item |-> [description |-> Str(ReplaceFee(tx.description.s)),
                         date |-> Undefined, price |-> Num(tx.amount * (0 - 1))]]
    ELSE [thrown |-> FALSE, item |-> Undefined]

\* getLineItemType(txType, tx), part_004; "exit" stands for process.exit(1)
GetLineItemType(txType) ==
    IF txType = "refund" THEN "refund"
    ELSE IF txType = "charge" THEN "charge"
    ELSE IF txType \in {"application_fee", "passthrough_fee", "stripe_fee"} THEN "fees"
    ELSE IF txType = "stripe_billing_fee" THEN "stripe_billing_fee"
    ELSE "exit"
\* the type of the line item in part_003
GetLineItemType003(txType) ==
    IF txType = "charge" THEN "charge"
    ELSE IF txType = "refund" THEN "refund"
    ELSE "fees"

\* txs.findIndex((stx) => stx.type === tx.type && stx.description === tx.description),
\* 0 for -1
FindSame(txs, tx) ==
    LET found == {i \in 1..Len(txs) :
                     txs[i].type = tx.type /\ txs[i].description = tx.description}
    IN  IF found = {} THEN 0 ELSE Least(found)
\* lineItems.findIndex((lineItem) => lineItem.type == type), 0 for -1
FindType(lineItems, type) ==
    LET found == {i \in 1..Len(lineItems) : lineItems[i].type = type}
    IN  IF found = {} THEN 0 ELSE Least(found)

\* one step of the first reduce of part_004 on the accumulator txs; thrown
\* when the description of a transaction that is neither refund nor charge
\* is not a string, or names subscriptions without a date
Collect(txs, tx) ==
    IF tx.type \in {"refund", "charge"}
    THEN [thrown |-> FALSE, txs |-> Append(txs, tx)]
    ELSE IF tx.description.t # "string"
    THEN [thrown |-> TRUE, txs |-> txs]
    ELSE IF \/ StartsWith(tx.description.s, <<"B", "i", "l", "l", "i", "n", "g", " ", "-", " ", "U", "s", "a", "g", "e", " ", "F", "e", "e">>)
            \/ StartsWith(tx.description.s, <<"P", "o", "s", "t", " ", "P", "a", "y", "m", "e", "n", "t", " ", "I", "n", "v", "o", "i", "c", "e", "s">>)
    THEN [thrown |-> FALSE, txs |-> Append(txs, [tx EXCEPT !.type = "stripe_billing_fee"])]
    ELSE IF StartsWith(tx.description.s, <<"B", "i", "l", "l", "i", "n", "g">>)
            /\ Includes(tx.description.s, <<"S", "u", "b", "s", "c", "r", "i", "p", "t", "i", "o", "n", "s">>)
    THEN IF DateMatches(tx.description.s) = {}
         THEN [thrown |-> TRUE, txs |-> txs]
         ELSE LET at == Least(DateMatches(tx.description.s))
                  date == SubSeq(tx.description.s, at, at + 9)
              IN  [thrown |-> FALSE,
                   txs |-> Append(txs,
                             [tx EXCEPT !.type = "stripe_billing_fee",
                                        !.description =
                                           Str(<<"B", "i", "l", "l", "i", "n", "g", " ", "-", " ", "S", "u", "b", "s", "c", "r", "i", "p", "t", "i", "o", "n", "s", " ", "(">> \o date \o <<")">>)])]
    ELSE IF tx.type \in {"application_fee", "stripe_fee", "passthrough_fee"}
    THEN LET prev == FindSame(txs, tx)
         IN  IF prev > 0
             THEN [thrown |-> FALSE,
                   txs |-> [txs EXCEPT ![prev].amount = txs[prev].amount + tx.amount]]
             ELSE [thrown |-> FALSE, txs |-> Append(txs, tx)]
    ELSE [thrown |-> FALSE, txs |-> Append(txs, tx)]

\* one step of the first reduce of part_003
Collect003(txs, tx) ==
    LET t1 == IF tx.type = "refund" THEN [tx EXCEPT !.description = Str(<<"R", "e", "f", "u", "n", "d", "s">>)] ELSE tx
        t2 == IF Truthy(t1.description) /\ StartsWith(t1.description.s, <<"B", "i", "l", "l", "i", "n", "g">>)
              THEN [t1 EXCEPT !.description = Str(<<"S", "t", "r", "i", "p", "e", " ", "S", "u", "b", "s", "c", "r", "i", "p", "t", "i", "o", "n", " ", "F", "e", "e", "s">>)]
              ELSE t1
        prev == IF t2.type \in {"application_fee", "stripe_fee"} THEN FindSame(txs, t2) ELSE 0
    IN  IF prev > 0
        THEN [thrown |-> FALSE,
              txs |-> [txs EXCEPT ![prev].amount = txs[prev].amount + t2.amount]]
        ELSE [thrown |-> FALSE, txs |-> Append(txs, t2)]

\* the description of a new line item
GroupDescription(type, tx) ==
    CASE type = "charge" -> Str(<<"C", "h", "a", "r", "g", "e">>)
      [] type = "fees" -> Str(<<"F", "e", "e", "s">>)
      [] type = "stripe_billing_fee" -> Str(<<"S", "t", "r", "i", "p", "e", " ", "B", "i", "l", "l", "i", "n", "g", " ", "F", "e", "e", "s">>)
      [] type = "refund" -> Str(<<"R", "e", "f", "u", "n", "d", "s">>)
      [] OTHER -> tx.description
GroupDescription003(type, tx) ==
    CASE type = "charge" -> Str(<<"C", "h", "a", "r", "g", "e">>)
      [] type = "fees" -> Str(<<"S", "t", "r", "i", "p", "e", " ", "F", "e", "e", "s">>)
      [] OTHER -> tx.description

\* one step of the second reduce on the accumulator lineItems, given the
\* line item type and the sub-item of the transaction
Group(lineItems, tx, type, description, sub) ==
    LET existingIdx == FindType(lineItems, type)
    IN  IF existingIdx > 0
        THEN [lineItems EXCEPT
                ![existingIdx].subitems = Append(lineItems[existingIdx].subitems, sub),
                ![existingIdx].amount = lineItems[existingIdx].amount + tx.amount]
        ELSE Append(lineItems,
                    [type |-> type, description |-> description,
                     subitems |-> <<sub>>, amount |-> tx.amount])

\* the row handed to generate() for a line item
LineItemRow(lineItem) ==
    << [Cell(lineItem.description) EXCEPT
           !.subitems = SelectSeq(lineItem.subitems, LAMBDA item : item # Undefined)],
       [Cell(Num(IF lineItem.type \in {"charge", "refund"}
                 THEN lineItem.amount
                 ELSE lineItem.amount * (0 - 1))) EXCEPT !.price = TRUE] >>
RECURSIVE LineItemRows(_, _)
LineItemRows(lineItems, k) ==
    IF k > Len(lineItems) THEN <<>>
    ELSE <<LineItemRow(lineItems[k])>> \o LineItemRows(lineItems, k + 1)

\* the first reduce from the k-th transaction on
RECURSIVE CollectAll(_, _, _, _)
CollectAll(version, transactions, k, txs) ==
    IF k > Len(transactions) THEN [outcome |-> "returned", txs |-> txs]
    ELSE LET step == IF version = "part_004" THEN Collect(txs, transactions[k])
                                             ELSE Collect003(txs, transactions[k])
         IN  IF step.thrown THEN [outcome |-> "thrown", txs |-> txs]
             ELSE CollectAll(version, transactions, k + 1, step.txs)

\* the second reduce from the k-th collected transaction on
RECURSIVE GroupAll(_, _, _, _)
GroupAll(version, txs, k, lineItems) ==
    IF k > Len(txs) THEN [outcome |-> "returned", lineItems |-> lineItems]
    ELSE LET tx == txs[k]
             type == IF version = "part_004" THEN GetLineItemType(tx.type)
                                             ELSE GetLineItemType003(tx.type)
             sub == IF version = "part_004" THEN SubItemFor(tx) ELSE SubItemFor003(tx)
             description == IF version = "part_004" THEN GroupDescription(type, tx)
                                                    ELSE GroupDescription003(type, tx)
         IN  IF type = "exit" THEN [outcome |-> "exited", lineItems |-> lineItems]
             ELSE IF sub.thrown THEN [outcome |-> "thrown", lineItems |-> lineItems]
             ELSE GroupAll(version, txs, k + 1,
                           Group(lineItems, tx, type, description, sub.item))

\* payoutLineItems(transactions): the rows, unless the call throws or ends
\* the process
PayoutLineItems(version, transactions) ==
    LET collected == CollectAll(version, transactions, 1, <<>>)
        grouped == GroupAll(version, collected.txs, 1, <<>>)
    IN  IF collected.outcome # "returned"
        THEN [outcome |-> collected.outcome, txs |-> collected.txs, rows |-> <<>>]
        ELSE [outcome |-> grouped.outcome, txs |-> collected.txs,
              rows |-> IF grouped.outcome = "returned"
                       THEN LineItemRows(grouped.lineItems, 1) ELSE <<>>]

\* the transactions a payout may hold: charges with and without an invoice
\* and without a customer, a refund, fees with equal and different
\* descriptions, billing fees of the three kinds, a tax, a fee without a
\* description
TxChoices ==
    << [Tx("charge", Str(<<"K", "o", "-", "f", "i">>), 1000) EXCEPT
           !.invoice = [id |-> Str(<<"i", "n", "_", "1">>), number |-> Str(<<"N", "-", "7">>)],
           !.customer.name = Str(<<"A", "n", "n">>)],
       Tx("charge", Str(<<"K", "o", "-", "f", "i">>), 500),
       [Tx("charge", Str(<<"K", "o", "-", "f", "i">>), 300) EXCEPT !.customer.defined = FALSE],
       Tx("refund", Undefined, 0 - 500),
       Tx("stripe_fee", Str(<<"S", "t", "r", "i", "p", "e", " ", "p", "r", "o", "c", "e", "s", "s", "i", "n", "g", " ", "f", "e", "e">>), 59),
       Tx("application_fee", Str(<<"K", "o", "-", "f", "i", " ", "a", "p", "p", "l", "i", "c", "a", "t", "i", "o", "n", " ", "f", "e", "e">>), 25),
       Tx("passthrough_fee", Str(<<"S", "t", "r", "i", "p", "e", " ", "p", "r", "o", "c", "e", "s", "s", "i", "n", "g", " ", "f", "e", "e">>), 4),
       Tx("stripe_fee", Str(<<"B", "i", "l", "l", "i", "n", "g", " ", "-", " ", "U", "s", "a", "g", "e", " ", "F", "e", "e", " ", "(", "2", "0", "2", "4", "-", "0", "5", "-", "0", "1", ")">>), 10),
       Tx("stripe_fee", Str(<<"B", "i", "l", "l", "i", "n", "g", " ", "(", "2", "0", "2", "4", "-", "0", "5", "-", "0", "1", ")", ":", " ", "S", "u", "b", "s", "c", "r", "i", "p", "t", "i", "o", "n", "s">>), 7),
       Tx("stripe_fee", Str(<<"B", "i", "l", "l", "i", "n", "g", ":", " ", "S", "u", "b", "s", "c", "r", "i", "p", "t", "i", "o", "n", "s">>), 3),
       Tx("tax", Str(<<"V", "A", "T">>), 19),
       Tx("stripe_fee", Undefined, 2) >>

\* the lists of at most n transactions
RECURSIVE TxLists(_)
TxLists(n) ==
    IF n = 0 THEN {<<>>}
    ELSE TxLists(n - 1)
         \cup {Append(l, TxChoices[i]) : l \in {m \in TxLists(n - 1) : Len(m) = n - 1},
                                         i \in 1..Len(TxChoices)}

Versions == {"part_003", "part_004"}

InitPayout ==
    /\ payout \in {[pc |-> "call", version |-> v, transactions |-> l,
                    outcome |-> "none", txs |-> <<>>, rows |-> <<>>] :
                      v \in Versions, l \in TxLists(MaxTransactions)}
    /\ pc = "none" /\ engine = NewInvoice(PayoutData, Pt(6)) /\ args = NoArgs
    /\ stages = <<>> /\ twin = NoTwin
    /\ pValue = Undefined /\ pCurrency = Undefined /\ pResult = <<>>
    /\ run = Unused /\ addr = Unused /\ months = Unused

CallPayoutLineItems ==
    /\ payout.pc = "call"
    /\ LET result == PayoutLineItems(payout.version, payout.transactions)
       IN  payout' = [payout EXCEPT !.pc = result.outcome, !.outcome = result.outcome,
                                     !.txs = result.txs, !.rows = result.rows]
    /\ UNCHANGED <<generator, run, addr, months>>

NextPayout == CallPayoutLineItems

SpecPayout == InitPayout /\ [][NextPayout]_vars

----------------------------------------------------------------------------
(* createAndSaveReceipts(stripe, account, period, config): the balance     *)
(* transactions are fetched, the charges sorted and numbered, one receipt  *)
(* generated per charge and written when its buffer is complete            *)

\* balance transactions of the period
MaxCharges == 2

\* the business of the configuration: its address has four lines
Business ==
    [address_line_1 |-> Str(<<"2", " ", "H", "i", "g", "h">>), address_line_2 |-> Undefined,
     postal_code |-> Str(<<"5", "3", "1", "1", "1">>), city |-> Str(<<"B", "o", "n", "n">>), state |-> Undefined,
     country |-> Str(<<"G", "e", "r", "m", "a", "n", "y">>)]
Account == <<"k", "o", "f", "i">>

\* billing details with a short address, with none, and with one longer
\* than the business's
ShortBilling ==
    [name |-> Undefined, email |-> Str(<<"b", ".", "e", "x", "a", "m", "p", "l", "e">>),
     address |-> [NoAddress EXCEPT !.defined = TRUE, !.line1 = Str(<<"1", " ", "M", "a", "i", "n">>),
                                   !.city = Str(<<"B", "e", "r", "l", "i", "n">>)]]
NamedBilling == [name |-> Str(<<"A", "n", "n">>), email |-> Str(<<"a", ".", "e", "x", "a", "m", "p", "l", "e">>), address |-> NoAddress]
LongBilling ==
    [name |-> Str(<<"C", "l", "e", "o">>), email |-> Str(<<"c", ".", "e", "x", "a", "m", "p", "l", "e">>),
     address |-> [defined |-> TRUE, line1 |-> Str(<<"1", " ", "M", "a", "i", "n">>), line2 |-> Str(<<"c", "/", "o">>),
                  postal_code |-> Str(<<"1", "0", "1", "1", "5">>), city |-> Str(<<"B", "e", "r", "l", "i", "n">>),
                  state |-> Str(<<"B", "E">>), country |-> Str(<<"G", "e", "r", "m", "a", "n", "y">>)]]

\* a balance transaction of the provider's list with its expanded source
Transaction(id, created, amount, method, billing, invoice) ==
    [id |-> id, status |-> "available", type |-> "charge", created |-> created,
     amount |-> amount, currency |-> <<"e", "u", "r">>, method |-> method,
     hasBilling |-> TRUE, billing_details |-> billing, invoice |-> invoice]
NoInvoice == [defined |-> FALSE, id |-> Undefined, total |-> 0, total_excluding_tax |-> 0,
              lines |-> <<>>]
\* an invoice with tax and one line for a period
TaxedInvoice ==
    [defined |-> TRUE, id |-> Str(<<"i", "n", "_", "1">>), total |-> 1190, total_excluding_tax |-> 1000,
     lines |-> << [description |-> <<"P", "l", "a", "n", " ", "1", "0", "€">>, amount |-> 1000, period |-> <<1, 2>>] >>]

\* the transactions the provider may list: a subscription charge with tax,
\* a one-off payment, a charge by an unhandled payment method, a source
\* without billing details or customer, a customer whose address is longer
\* than the business's, and a pending transaction
TransactionChoices ==
    << Transaction(<<"c", "h", "_", "2">>, 2, 1190, "card", NamedBilling, TaxedInvoice),
       Transaction(<<"c", "h", "_", "1">>, 1, 500, "card", ShortBilling, NoInvoice),
       Transaction(<<"c", "h", "_", "3">>, 3, 700, "wechat_pay", ShortBilling, NoInvoice),
       [Transaction(<<"p", "y", "_", "4">>, 2, 300, "card", ShortBilling, NoInvoice) EXCEPT
           !.hasBilling = FALSE],
       Transaction(<<"c", "h", "_", "5">>, 1, 900, "card", LongBilling, NoInvoice),
       [Transaction(<<"c", "h", "_", "6">>, 3, 100, "card", ShortBilling, NoInvoice) EXCEPT
           !.status = "pending"] >>

\* processCharge(transaction): the charge and the errors, unless it throws
\* when it reads charge.billing_details.name of a source that has neither
\* customer nor billing details
ProcessCharge(transaction) ==
    IF ~transaction.hasBilling
    THEN [thrown |-> TRUE, charge |-> <<>>, errors |-> <<>>]
    ELSE [thrown |-> FALSE,
          charge |->
             [type |-> "charge", id |-> transaction.id, created |-> transaction.created,
              amount |-> transaction.amount, currency |-> transaction.currency,
              billing_details |-> transaction.billing_details,
              invoice |->
                 IF transaction.invoice.defined
                 THEN transaction.invoice
                 ELSE [defined |-> TRUE, id |-> Undefined, total |-> transaction.amount,
                       total_excluding_tax |-> transaction.amount,
                       lines |-> << [description |-> <<"T", "i", "p">>,
                                     amount |-> transaction.amount,
                                     period |-> <<transaction.created,
                                                  transaction.created>>] >>]],
          errors |->
             IF transaction.method \in {"card", "link", "paypal", "sepa_debit"}
             THEN <<>>
             ELSE << <<"u", "n", "h", "a", "n", "d", "l", "e", "d", " ", "p", "a", "y", "m", "e", "n", "t", " ", "m", "e", "t", "h", "o", "d">> >>]

\* the fields of what fetchBalanceTransactions returns that the receipts
\* read; totals.errors is set to 0 and no statement adds to it
NoResults == [charges |-> <<>>, errors |-> <<>>]
NoTotals == [errors |-> 0, pending_transactions |-> 0]

\* charges.sort((a, b) => a.created < b.created ? -1 : a.created > b.created ? 1 : 0):
\* the sort is stable
RECURSIVE InsertByCreated(_, _)
InsertByCreated(sorted, charge) ==
    IF sorted = <<>> THEN <<charge>>
    ELSE IF sorted[Len(sorted)].created <= charge.created THEN Append(sorted, charge)
    ELSE Append(InsertByCreated(SubSeq(sorted, 1, Len(sorted) - 1), charge),
                sorted[Len(sorted)])
RECURSIVE SortedByCreated(_)
SortedByCreated(charges) ==
    IF charges = <<>> THEN <<>>
    ELSE InsertByCreated(SortedByCreated(SubSeq(charges, 1, Len(charges) - 1)),
                         charges[Len(charges)])
Unsorted(charges) == charges
SortByCreated(charges) == SortedByCreated(charges)

\* string.toUpperCase() for the letters of the Latin alphabet
LowerCase == <<"a", "b", "c", "d", "e", "f", "g", "h", "i", "j", "k", "l", "m", "n", "o", "p", "q", "r", "s", "t", "u", "v", "w", "x", "y", "z">>
UpperCase == <<"A", "B", "C", "D", "E", "F", "G", "H", "I", "J", "K", "L", "M", "N", "O", "P", "Q", "R", "S", "T", "U", "V", "W", "X", "Y", "Z">>
ToUpperCase(s) ==
    [i \in 1..Len(s) |->
        IF \E k \in 1..26 : LowerCase[k] = s[i]
        THEN UpperCase[CHOOSE k \in 1..26 : LowerCase[k] = s[i]]
        ELSE s[i]]
\* Intl.DateTimeFormat("fr-CA", {year, month: "2-digit"}).format(created):
\* the first two instants are of May, the later ones of June
ReceiptDate(created) == IF created <= 2 THEN <<"2", "0", "2", "4", "-", "0", "5">> ELSE <<"2", "0", "2", "4", "-", "0", "6">>
\* formatDate(created, true)
FormatDate(created) == <<"D", "a", "y", " ">> \o NatToString(created)
\* formatPeriod(period, true)
FormatPeriod(period) == NatToString(period[1]) \o <<" ", "t", "o", " ">> \o NatToString(period[2])

\* `${account.toUpperCase()}-${receiptDate}-${String(index + 1).padStart(4, "0")}`,
\* index counted from 0
ConstantNumber(created, index) ==
    ToUpperCase(Account) \o <<"-">> \o ReceiptDate(created) \o <<"-", "0", "0", "0", "1">>
ReceiptNumber(created, index) ==
    ToUpperCase(Account) \o <<"-">> \o ReceiptDate(created) \o <<"-">>
        \o PadStart(NatToString(index + 1), 4, "0")

\* description.replaceAll("€", "€ ")
RECURSIVE SpaceAfterEuro(_)
SpaceAfterEuro(s) ==
    IF s = <<>> THEN <<>>
    ELSE IF Head(s) = "€" THEN <<"€", " ">> \o SpaceAfterEuro(Tail(s))
    ELSE <<Head(s)>> \o SpaceAfterEuro(Tail(s))

\* the totals, the legal lines and the line items createAndSaveReceipt
\* hands to generate()
ReceiptTotals(charge) ==
    LET price(label, value) == [label |-> label, value |-> Num(value), price |-> TRUE]
    IN  IF charge.invoice.total # charge.invoice.total_excluding_tax
        THEN << price(<<"S", "u", "b", "t", "o", "t", "a", "l">>, charge.invoice.total_excluding_tax),
                price(<<"V", "A", "T">>, charge.invoice.total - charge.invoice.total_excluding_tax),
                price(<<"T", "o", "t", "a", "l", " ", "P", "a", "i", "d">>, charge.invoice.total) >>
        ELSE << price(<<"T", "o", "t", "a", "l", " ", "P", "a", "i", "d">>, charge.invoice.total) >>
ReceiptLegal(charge) ==
    (IF charge.invoice.total = charge.invoice.total_excluding_tax
     THEN << [value |-> <<"N", "o", " ", "V", "A", "T">> \o <<"\n">>, weight |-> "bold", color |-> "primary"] >>
     ELSE <<>>)
    \o (IF Truthy(charge.invoice.id)
        THEN << [value |-> <<"R", "e", "f", ":", " ">> \o JsString(charge.invoice.id),
                 weight |-> "normal", color |-> "primary"],
                [value |-> <<"C", "o", "p", "y", ":", " ", "m", "a", "i", "l">>, weight |-> "normal", color |-> "primary"] >>
        ELSE <<>>)
ReceiptLineItems(charge) ==
    [k \in 1..Len(charge.invoice.lines) |->
        LET lineItem == charge.invoice.lines[k]
        IN  << [Cell(Str(SpaceAfterEuro(lineItem.description))) EXCEPT
                   !.subtext = IF lineItem.period[1] # lineItem.period[2]
                               THEN FormatPeriod(lineItem.period) ELSE <<>>],
               Cell(Num(1)),
               [Cell(Num(lineItem.amount)) EXCEPT !.price = TRUE] >>]
ReceiptArgs(charge) ==
    [lineItems |-> ReceiptLineItems(charge), totals |-> ReceiptTotals(charge),
     legal |-> [defined |-> TRUE, lines |-> ReceiptLegal(charge)]]

\* createReceipt(charge, receiptNumber).setBusiness(...).setCustomer(...):
\* a new engine on its own canvas
CreateReceipt(charge, receiptNumber, addresses, charWidth) ==
    [NewInvoice([name |-> <<"R", "e", "c", "e", "i", "p", "t">>,
                 header |-> << [label |-> <<"R", "e", "c", "e", "i", "p", "t", " ", "N", "u", "m", "b", "e", "r">>, value |-> Str(receiptNumber)],
                               [label |-> <<"C", "h", "a", "r", "g", "e", " ", "I", "D">>, value |-> Str(charge.id)],
                               [label |-> <<"C", "h", "a", "r", "g", "e", " ", "D", "a", "t", "e">>,
                                value |-> Str(FormatDate(charge.created))] >>,
                 currency |-> Str(ToUpperCase(charge.currency)),
                 detailsHeader |-> << Cell(Str(<<"D", "e", "s", "c", "r", "i", "p", "t", "i", "o", "n">>)), Cell(Str(<<"Q", "u", "a", "n", "t", "i", "t", "y">>)),
                                      Cell(Str(<<"A", "m", "o", "u", "n", "t">>)) >>],
                charWidth) EXCEPT
        !.business = [defined |-> TRUE,
                      lines |-> << [label |-> <<"A", "c", "m", "e">>,
                                    value |-> Arr(addresses.businessAddress)],
                                   [label |-> <<"T", "a", "x", " ", "I", "d", "e", "n", "t", "i", "f", "i", "e", "r">>, value |-> Str(<<"D", "E", "1">>)] >>],
        !.customer = [defined |-> TRUE,
                      lines |-> << [label |-> <<"C", "u", "s", "t", "o", "m", "e", "r">>,
                                    value |-> Arr(addresses.customerAddress)],
                                   [label |-> <<"E", "m", "a", "i", "l", " ", "A", "d", "d", "r", "e", "s", "s">>,
                                    value |-> charge.billing_details.email] >>]]

\* where a canvas operation may fail: in no document, or in one stage of the
\* n-th document of the run
NoFault == [doc |-> 0, stage |-> "none"]
GenerateStages ==
    {"generateHeader", "generateCustomer", "generateSeller", "generateLineItems",
     "generateTotals", "generateLegal", "end"}
Faults(n) == {NoFault} \cup {[doc |-> d, stage |-> s] : d \in 1..n, s \in GenerateStages}

\* the lists of at most n transactions
RECURSIVE TransactionLists(_)
TransactionLists(n) ==
    IF n = 0 THEN {<<>>}
    ELSE TransactionLists(n - 1)
         \cup {Append(l, TransactionChoices[i]) :
                  l \in {m \in TransactionLists(n - 1) : Len(m) = n - 1},
                  i \in 1..Len(TransactionChoices)}

InitReceipts ==
    /\ run \in {[pc |-> "fetch", incoming |-> l, next |-> 1, charWidth |-> w, fault |-> f,
                 results |-> NoResults, totals |-> NoTotals, logged |-> <<>>,
                 receiptDir |-> FALSE, charges |-> <<>>, docs |-> <<>>,
                 files |-> <<>>, exit |-> "none"] :
                   l \in TransactionLists(MaxCharges), w \in CharWidths,
                   f \in Faults(MaxCharges)}
    /\ run.fault.doc <= Len(run.incoming)
    /\ pc = "none" /\ engine = NewInvoice(ReceiptData, Pt(6)) /\ args = NoArgs
    /\ stages = <<>> /\ twin = NoTwin
    /\ pValue = Undefined /\ pCurrency = Undefined /\ pResult = <<>>
    /\ addr = Unused /\ months = Unused /\ payout = Unused

\* one turn of the loop "for await (const transaction of ...list())"
FetchTransaction ==
    /\ run.pc = "fetch" /\ run.next <= Len(run.incoming)
    /\ LET transaction == run.incoming[run.next]
           processed == ProcessCharge(transaction)
       IN  run' =
             IF transaction.status = "pending"
             THEN [run EXCEPT !.next = run.next + 1,
                              !.totals.pending_transactions =
                                  run.totals.pending_transactions + 1]
             ELSE IF processed.thrown
             THEN [run EXCEPT !.next = run.next + 1,
                              !.results.errors = Append(run.results.errors, <<"T", "y", "p", "e", "E", "r", "r", "o", "r">>)]
             ELSE [run EXCEPT !.next = run.next + 1,
                              !.results.errors = run.results.errors \o processed.errors,
                              !.results.charges =
                                  Append(run.results.charges, processed.charge)]
    /\ UNCHANGED <<generator, addr, months, payout>>

\* the list is exhausted: fetchBalanceTransactions returns
ReturnTransactions ==
    /\ run.pc = "fetch" /\ run.next > Len(run.incoming)
    /\ run' = [run EXCEPT !.pc = "check"]
    /\ UNCHANGED <<generator, addr, months, payout>>

\* if (balanceTransactions.totals.errors > 0) { log the errors; process.exit(1) }
CheckErrors ==
    /\ run.pc = "check"
    /\ run' = IF run.totals.errors > 0
              THEN [run EXCEPT !.pc = "exited", !.logged = run.results.errors,
                               !.exit = "1"]
              ELSE [run EXCEPT !.pc = "mkdirp"]
    /\ UNCHANGED <<generator, addr, months, payout>>

\* await mkdirp(receiptDir)
MakeDirectory ==
    /\ run.pc = "mkdirp"
    /\ run' = [run EXCEPT !.pc = "sort", !.receiptDir = TRUE]
    /\ UNCHANGED <<generator, addr, months, payout>>

\* results.charges.sort(...)
SortCharges ==
    /\ run.pc = "sort"
    /\ run' = [run EXCEPT !.pc = "map", !.charges = SortByCreated(run.results.charges)]
    /\ UNCHANGED <<generator, addr, months, payout>>

\* the document the map callback is working on, 0 if none
Current == IF run.docs # <<>> /\ run.docs[Len(run.docs)].pc \notin {"done", "thrown"}
           THEN Len(run.docs) ELSE 0

\* the map callback is called for the next charge: createAndSaveReceipt
\* runs up to the call of generate(); getAddresses does not return for a
\* customer address longer than the business's
BeginReceipt ==
    /\ run.pc = "map" /\ Current = 0 /\ Len(run.docs) < Len(run.charges)
    /\ LET index == Len(run.docs)
           charge == run.charges[index + 1]
           receiptNumber == ReceiptNumber(charge.created, index)
           addresses == GetAddresses(charge.billing_details, Business)
       IN  run' =
             IF ~addresses.returns
             THEN [run EXCEPT !.pc = "hung"]
             ELSE [run EXCEPT !.docs = Append(run.docs,
                      [charge |-> charge, receiptNumber |-> receiptNumber,
                       pc |-> "generateHeader", args |-> ReceiptArgs(charge),
                       engine |-> CreateReceipt(charge, receiptNumber, addresses,
                                                run.charWidth),
                       promise |-> "none", buffer |-> <<>>])]
    /\ UNCHANGED <<generator, addr, months, payout>>

\* this.document and this.storage of the document in the making
PreviousState(docs, i) ==
    IF i > 1 THEN [docs[i].engine EXCEPT !.storage = docs[i - 1].engine.storage]
    ELSE docs[i].engine
DocumentState(docs, i) == docs[i].engine

\* the next statement of generate() of the document in the making; after the
\* last one .then(...) is attached to the promise of the buffer
ReceiptStage ==
    /\ run.pc = "map" /\ Current > 0
    /\ LET i == Current
           doc == run.docs[i]
       IN  /\ ~(run.fault.doc = i /\ run.fault.stage = doc.pc)
           /\ run' = [run EXCEPT
                 !.docs[i].engine = RunStage(doc.pc, DocumentState(run.docs, i), doc.args),
                 !.docs[i].pc = After(doc.pc),
                 !.docs[i].promise = IF After(doc.pc) = "done" THEN "pending" ELSE "none"]
    /\ UNCHANGED <<generator, addr, months, payout>>

\* a canvas operation of the statement throws: the async function's promise
\* is rejected and the map goes on
CanvasFails ==
    /\ run.pc = "map" /\ Current > 0
    /\ LET i == Current
       IN  /\ run.fault.doc = i /\ run.fault.stage = run.docs[i].pc
           /\ run' = [run EXCEPT !.docs[i].pc = "thrown", !.docs[i].promise = "rejected"]
    /\ UNCHANGED <<generator, addr, months, payout>>

\* the map has returned: await Promise.all(receipts)
AwaitAll ==
    /\ run.pc = "map" /\ Current = 0 /\ Len(run.docs) = Len(run.charges)
    /\ run' = [run EXCEPT !.pc = "await"]
    /\ UNCHANGED <<generator, addr, months, payout>>

\* may the file of the document be written
Early(doc) == doc.promise = "pending"
MayWrite(doc) == doc.promise = "buffered"

\* the stream of a document ends: the promise of generate() resolves with
\* the buffer of all that was written to the canvas
StreamEnds ==
    /\ run.pc = "await"
    /\ \E i \in 1..Len(run.docs) :
          /\ run.docs[i].promise = "pending"
          /\ run' = [run EXCEPT !.docs[i].promise = "buffered",
                                !.docs[i].buffer = run.docs[i].engine.log]
    /\ UNCHANGED <<generator, addr, months, payout>>

\* .then((pdf) => writeFile(joinPath(receiptDir, `${receiptNumber}.pdf`), pdf))
WriteReceipt ==
    /\ run.pc = "await"
    /\ \E i \in 1..Len(run.docs) :
          /\ MayWrite(run.docs[i])
          /\ run' = [run EXCEPT
                !.docs[i].promise = "written",
                !.files = Append(run.files,
                             [name |-> run.docs[i].receiptNumber \o <<".", "p", "d", "f">>,
                              data |-> run.docs[i].buffer])]
    /\ UNCHANGED <<generator, addr, months, payout>>

\* Promise.all resolves when every receipt is written, and main() exits
\* with 0; it rejects when one promise is rejected, and main() exits with 1
Settle ==
    /\ run.pc = "await"
    /\ \/ /\ \A i \in 1..Len(run.docs) : run.docs[i].promise = "written"
          /\ run' = [run EXCEPT !.pc = "exited", !.exit = "0"]
       \/ /\ \E i \in 1..Len(run.docs) : run.docs[i].promise = "rejected"
          /\ run' = [run EXCEPT !.pc = "exited", !.exit = "1"]
    /\ UNCHANGED <<generator, addr, months, payout>>

NextReceipts ==
    \/ FetchTransaction
    \/ ReturnTransactions
    \/ CheckErrors
    \/ MakeDirectory
    \/ SortCharges
    \/ BeginReceipt
    \/ ReceiptStage
    \/ CanvasFails
    \/ AwaitAll
    \/ StreamEnds
    \/ WriteReceipt
    \/ Settle

SpecReceipts == InitReceipts /\ [][NextReceipts]_vars

----------------------------------------------------------------------------
(* Claims about the price formatter, checked under SpecPrice *)

\* the decimal rendering of cents / 100 with two fraction digits
DecimalRendering(cents) ==
    (IF cents < 0 THEN <<"-">> ELSE <<>>)
        \o NatToString(Abs(cents) \div 100) \o <<".">>
        \o Tail(NatToString(100 + (Abs(cents) % 100)))

\* s, with spaces in front when it is shorter than five characters
LeftPadded5(s) ==
    IF Len(s) >= 5 THEN s ELSE SubSeq(<<" ", " ", " ", " ", " ">>, 1, 5 - Len(s)) \o s

\* r is full without its trailing spaces
WithoutTrailingSpaces(r, full) ==
    /\ Len(r) <= Len(full)
    /\ r = SubSeq(full, 1, Len(r))
    /\ \A i \in (Len(r) + 1)..Len(full) : full[i] = " "
    /\ (r = <<>> \/ r[Len(r)] # " ")

PricedNumber == pc = "priced" /\ pValue.t = "number" /\ Truthy(pCurrency)
PricedString == pc = "priced" /\ pValue.t = "string" /\ ~Truthy(pCurrency)

\* C1 as stated: for an integer amount v and a non-empty currency code c,
\* prettyPrice(v, c) is exactly the decimal rendering of v/100, one space
\* and c, with no other character added.
C1_Original ==
    PricedNumber =>
        pResult = DecimalRendering(pValue.n) \o <<" ">> \o pCurrency.s

\* C1 as amended: prettyPrice(v, c) is the decimal rendering of v/100 with
\* two fraction digits, padded on the left with spaces to five characters,
\* then one space, then c, the whole without its trailing spaces.
C1_PaddedPrice ==
    PricedNumber =>
        WithoutTrailingSpaces(pResult,
            LeftPadded5(DecimalRendering(pValue.n)) \o <<" ">> \o pCurrency.s)

C1_Witness ==
    /\ pc = "priced" /\ pValue = Num(0) /\ pCurrency = Str(EUR)
    /\ pResult = <<" ", "0", ".", "0", "0", " ", "E", "U", "R">>

\* C2 as stated: for a string s and no currency, prettyPrice(s) is s,
\* character for character.
C2_Original == PricedString => pResult = pValue.s

\* C2 as amended: for a string s and no currency, prettyPrice(s) is s padded
\* on the left with spaces to five characters; it is s itself exactly when s
\* has five characters or more.
C2_PaddedString ==
    PricedString =>
        /\ pResult = LeftPadded5(pValue.s)
        /\ (pResult = pValue.s) <=> (Len(pValue.s) >= 5)

C2_Witness ==
    /\ pc = "priced" /\ pValue = Str(<<"N", "/", "A">>) /\ pCurrency = Undefined
    /\ pResult = <<" ", " ", "N", "/", "A">>

----------------------------------------------------------------------------
(* Claims about generate(), checked under Spec *)

Log == engine.log
StageOrder == <<"header", "customer", "seller", "lineItems", "totals", "legal", "end">>
Rank(stage) == CHOOSE i \in 1..Len(StageOrder) : StageOrder[i] = stage
\* the stage has run to its end
Ran(stage) == \E i \in 1..Len(stages) : stages[i] = stage

\* C3: generate() runs header, customer block, seller block, line items,
\* totals and legal in that order, each once; the canvas is asked to finish
\* only after the legal stage, and receives no command after that.
C3_StagesInOrder ==
    /\ Len(stages) <= Len(StageOrder)
    /\ \A i \in 1..Len(stages) : stages[i] = StageOrder[i]
    /\ pc = "done" => stages = StageOrder
    /\ \A i \in 1..(Len(Log) - 1) : Rank(Log[i].stage) <= Rank(Log[i + 1].stage)
    /\ \A i \in 1..Len(Log) :
          Log[i].op = "end" => /\ i = Len(Log)
                               /\ Ran("legal")
                               /\ engine.ended
    /\ engine.ended => Log[Len(Log)].op = "end"

C3_Witness ==
    /\ pc = "done" /\ engine.ended
    /\ \A k \in 1..6 : \E i \in 1..Len(Log) :
          Log[i].op = "text" /\ Log[i].stage = StageOrder[k]

\* the events of the table's texts, in the order they were drawn
TableTexts == SelectSeq(Log, LAMBDA ev : ev.stage = "lineItems" /\ ev.op = "text")
\* the place of a table text: row, column, then 0 for the cell's main text
\* and 1 for its subtext, or the sub-item and the column of its row
Key(ev) == IF ev.sub = 0
           THEN <<ev.row, ev.col, 0, IF ev.site = "row.subtext" THEN 1 ELSE 0>>
           ELSE <<ev.row, ev.col, ev.sub, ev.scol>>
Before(a, b) ==
    \/ a[1] < b[1]
    \/ a[1] = b[1] /\ a[2] < b[2]
    \/ a[1] = b[1] /\ a[2] = b[2] /\ a[3] < b[3]
    \/ a[1] = b[1] /\ a[2] = b[2] /\ a[3] = b[3] /\ a[4] < b[4]
\* row 0 is the header row, row r the r-th line item the caller supplied
RowOf(r) == IF r = 0 THEN engine.data.detailsHeader ELSE args.lineItems[r]
\* the text a cell is drawn as
CellText(cell) == IF cell.price THEN PrettyPrice(cell.value, engine.data.currency)
                  ELSE JsString(cell.value)

\* C4: in the line-items stage the header row is drawn first, then the line
\* items in the caller's order; the cells of a row are drawn left to right
\* with exactly one main text per cell, and the sub-items of a cell in the
\* order supplied, after the cell's main text and before the next cell's.
C4_TableOrder ==
    Ran("lineItems") =>
        LET T == TableTexts
            K == [i \in 1..Len(T) |-> Key(T[i])]
        IN  /\ \A i \in 1..(Len(T) - 1) : Before(K[i], K[i + 1])
            /\ \A i \in 1..Len(T) :
                  /\ T[i].row \in 0..Len(args.lineItems)
                  /\ T[i].col \in 0..(Len(RowOf(T[i].row)) - 1)
                  /\ T[i].sub \in 0..Len(RowOf(T[i].row)[T[i].col + 1].subitems)
            /\ \A r \in 0..Len(args.lineItems) : \A c \in 1..Len(RowOf(r)) :
                  /\ \E i \in 1..Len(T) :
                        /\ K[i] = <<r, c - 1, 0, 0>>
                        /\ T[i].text = CellText(RowOf(r)[c])
                  /\ \A j \in 1..Len(RowOf(r)[c].subitems) :
                        \E i \in 1..Len(T) :
                            /\ K[i] = <<r, c - 1, j, 2>>
                            /\ T[i].text = PrettyPrice(RowOf(r)[c].subitems[j].price,
                                                       engine.data.currency)

C4_Witness ==
    /\ Ran("lineItems")
    /\ args.lineItems = <<PayoutRow, RichRow>>
    /\ LET T == TableTexts
       IN  \E i \in 1..(Len(T) - 1) :
              /\ Key(T[i]) = <<2, 0, 2, 2>>
              /\ Key(T[i + 1]) = <<2, 1, 0, 0>>

\* the y a party block ends at: the cursor after its last text, or where the
\* block starts when it has no line; 0 when the block was not rendered
BlockEvents(type) ==
    SelectSeq(Log, LAMBDA ev : ev.stage = type /\ ev.op \in {"moveTo", "text"})
BlockEnd(type) ==
    IF (IF type = "customer" THEN engine.customer.defined ELSE engine.business.defined)
    THEN BlockEvents(type)[Len(BlockEvents(type))].y
    ELSE 0
\* where the table's header row starts
HeaderRowStart ==
    Log[CHOOSE i \in 1..Len(Log) :
          /\ Log[i].stage = "lineItems" /\ Log[i].site = "row.column"
          /\ Log[i].row = 0 /\ Log[i].col = 0 /\ Log[i].sub = 0]

\* C5: when a party block was rendered, the customer block ending at Hc and
\* the seller block at Hs, the table's header row starts at the left margin
\* and at y = max(Hc, Hs) + 18, whichever block is the taller.
C5_TableBelowTallerBlock ==
    (Ran("lineItems") /\ (engine.customer.defined \/ engine.business.defined)) =>
        /\ HeaderRowStart.y = Max(BlockEnd("customer"), BlockEnd("seller")) + Pt(18)
        /\ HeaderRowStart.x = MarginLeft

C5_Witness ==
    /\ Ran("lineItems")
    /\ BlockEnd("customer") > BlockEnd("seller")
    /\ BlockEnd("seller") > Style.header.height + Pt(18)
    /\ HeaderRowStart.y = BlockEnd("customer") + Pt(18)

NoBlockRendered ==
    Ran("lineItems") /\ engine.storage.customer.height = 0 /\ engine.storage.seller.height = 0

\* C6 as stated: when no party block was rendered, the table's header row
\* starts at the fallback position header.height + 18 plus the gap of 18.
C6_Original ==
    NoBlockRendered => HeaderRowStart.y = Style.header.height + Pt(18) + Pt(18)

\* C6 as amended: when no party block was rendered, the table's header row
\* starts at the left margin and at y = header.height + 18, where the header
\* stage left the cursor; no further gap is added.
C6_TableBelowHeader ==
    NoBlockRendered =>
        /\ HeaderRowStart.y = Style.header.height + Pt(18)
        /\ HeaderRowStart.x = MarginLeft

C6_Witness ==
    /\ NoBlockRendered /\ engine.data = PayoutData
    /\ ~engine.customer.defined /\ ~engine.business.defined
    /\ HeaderRowStart.y = Pt(168)

AbsentOrEmpty(entity) == ~entity.defined \/ entity.lines = <<>>
LastOf(stage) ==
    Log[CHOOSE i \in 1..Len(Log) :
          /\ Log[i].stage = stage
          /\ \A j \in (i + 1)..Len(Log) : Log[j].stage # stage]

\* C7: a party block that is absent or an empty list leaves its entry of
\* the storage at 0 and the cursor at (left margin, header.height + 18), and
\* a document whose blocks are empty lists starts its table at the y at which
\* a document without blocks starts it.
C7_EmptyBlockHasNoHeight ==
    /\ (Ran("customer") /\ AbsentOrEmpty(engine.customer)) =>
          /\ engine.storage.customer.height = 0
          /\ LastOf("customer").x = MarginLeft
          /\ LastOf("customer").y = Style.header.height + Pt(18)
    /\ (Ran("seller") /\ AbsentOrEmpty(engine.business)) =>
          /\ engine.storage.seller.height = 0
          /\ LastOf("seller").x = MarginLeft
          /\ LastOf("seller").y = Style.header.height + Pt(18)
    /\ (Ran("lineItems") /\ AbsentOrEmpty(engine.customer) /\ AbsentOrEmpty(engine.business)) =>
          HeaderRowStart.y = Style.header.height + Pt(18)

\* the events of generateTableRow calls: a call starts with the move to its
\* first column and returns with the move to the row's end
IsRowEnd(ev) == ev.stage = "lineItems" /\ ev.site = "row.end"
IsRowStart(ev) ==
    /\ ev.stage = "lineItems" /\ ev.site = "row.column"
    /\ (IF ev.sub = 0 THEN ev.col = 0 ELSE ev.scol = 0)
SameRow(a, b) == a.row = b.row /\ a.sub = b.sub /\ (a.sub = 0 \/ a.col = b.col)
\* the move to a column of the call's own row
IsColumnOf(ev, end) == ev.site = "row.column" /\ SameRow(ev, end)
\* the index of the start of the call that returns at index k
StartOf(L, k) == CHOOSE a \in 1..k : IsRowStart(L[a]) /\ SameRow(L[a], L[k])
\* the indices at which a column of that call ends: the event before the
\* move to its next column, and the event before the call returns
ColumnEnds(L, k) ==
    {i \in StartOf(L, k)..(k - 1) : i + 1 = k \/ IsColumnOf(L[i + 1], L[k])}
SetMax(S) == CHOOSE m \in S : \A n \in S : n <= m

\* C8: generateTableRow(type, columns, rowTop) returns with the cursor at
\* the left margin and at the greatest y that one of its columns reached
\* after its main text, subtext and sub-items; the row that follows starts at
\* or below every y at which this row has drawn.
C8_RowEndsBelowContent ==
    Ran("lineItems") =>
        LET L == Log
        IN  \A k \in 1..Len(L) : IsRowEnd(L[k]) =>
              /\ L[k].x = MarginLeft
              /\ L[k].y = SetMax({L[i].y : i \in ColumnEnds(L, k)})
              /\ \A i \in StartOf(L, k)..k : L[i].ty <= L[k].y /\ L[i].y <= L[k].y
              /\ \A n \in (k + 1)..Len(L) :
                    (IsRowStart(L[n]) /\ ~SameRow(L[n], L[k])) =>
                        \A i \in StartOf(L, k)..k : L[i].y <= L[n].y

\* a row whose first column, with a subtext and two sub-items, ends below
\* its last column
C8_Witness ==
    /\ Ran("lineItems")
    /\ args.lineItems = <<RichRow, PlainRow>>
    /\ LET L == Log
       IN  \E k \in 1..Len(L) :
              /\ IsRowEnd(L[k]) /\ L[k].row = 1 /\ L[k].sub = 0
              /\ L[k - 1].y < L[k].y
              /\ \E i \in StartOf(L, k)..k : L[i].sub = 2 /\ L[i].y = L[k].y - Pt(3)

\* a move of the cursor to the next sibling column of a row
IsSiblingColumn(ev) ==
    /\ ev.op = "moveTo" /\ ev.site = "row.column"
    /\ (IF ev.sub = 0 THEN ev.col > 0 ELSE ev.scol > 0)
\* the other moves by which the engine lays content side by side or returns
\* to the origin of a section
IsSectionMove(ev) ==
    /\ ev.op = "moveTo"
    /\ \/ ev.site \in {"header.lines", "header.end", "totals.value"}
       \/ ev.site \in {"details.start", "details.absent"} /\ ev.stage = "seller"
\* the cursor changes through the logged operations only
CursorIsLogged ==
    /\ Log # <<>> => engine.y = Log[Len(Log)].y
    /\ \A i \in 1..(Len(Log) - 1) : Log[i + 1].y0 = Log[i].y

\* C9 as stated: across one generate() call the cursor's y never decreases
\* from one operation to the next, except when generateTableRow moves to the
\* next sibling column of a row.
C9_Original ==
    \A i \in 1..Len(Log) : Log[i].y < Log[i].y0 => IsSiblingColumn(Log[i])

\* C9 as amended: the cursor's y decreases only at a moveTo, and only at one
\* of these: generateTableRow moving to the next sibling column; generateHeader
\* moving from the title up to the header lines, and from header lines that
\* reach below the band to header.height + 18; generateDetails returning to
\* header.height + 18 for the seller block; generateTotals moving from a
\* label to its value.  No text, margin, moveDown, separator or other move
\* takes the cursor up.
C9_RewindsOnlyAtMoves ==
    /\ CursorIsLogged
    /\ \A i \in 1..Len(Log) :
          Log[i].y < Log[i].y0 => IsSiblingColumn(Log[i]) \/ IsSectionMove(Log[i])

\* the seller block starts above the end of the customer block
C9_Witness ==
    /\ pc = "done"
    /\ \E i \in 1..Len(Log) :
          /\ Log[i].stage = "seller" /\ Log[i].site = "details.start"
          /\ Log[i].y < Log[i].y0
    /\ \E i \in 1..Len(Log) : Log[i].site = "header.end" /\ Log[i].y < Log[i].y0
    /\ \E i \in 1..Len(Log) : Log[i].site = "totals.value" /\ Log[i].y < Log[i].y0

\* the indices of the accesses to this.storage[key].height
Writes(key) == {i \in 1..Len(Log) : Log[i].op = "write" /\ Log[i].site = key}
Reads(key) == {i \in 1..Len(Log) : Log[i].op = "read" /\ Log[i].site = key}
Keys == {"customer", "seller"}
EntityOf(key) == IF key = "customer" THEN engine.customer ELSE engine.business
WritesBeforeReads ==
    \A k1 \in Keys, k2 \in Keys : \A w \in Writes(k1), r \in Reads(k2) : w < r

\* C10 as stated: during one generate() call each entry of the storage is
\* written exactly once, by generateDetails, and read exactly once, by
\* generateLineItems, every write before every read.
C10_Original ==
    pc = "done" =>
        /\ \A key \in Keys : Cardinality(Writes(key)) = 1 /\ Cardinality(Reads(key)) = 1
        /\ WritesBeforeReads

\* C10 as amended: each entry is written at most once, by generateDetails:
\* once when its block was set, never when the block is absent.  It is read
\* by generateLineItems only, once or twice: the customer entry twice when an
\* entry is above 0, the seller entry twice when the customer entry is 0 and
\* the seller entry is not.  Every write happens before every read.
C10_WrittenOnceReadLater ==
    /\ \A key \in Keys :
          /\ Cardinality(Writes(key)) = (IF Ran(key) /\ EntityOf(key).defined THEN 1 ELSE 0)
          /\ \A w \in Writes(key) : Log[w].stage = key
          /\ \A r \in Reads(key) : Log[r].stage = "lineItems"
          /\ ~Ran("lineItems") => Reads(key) = {}
    /\ Ran("lineItems") =>
          LET c == engine.storage.customer.height
              s == engine.storage.seller.height
          IN  /\ Cardinality(Reads("customer")) = (IF c > 0 \/ s > 0 THEN 2 ELSE 1)
              /\ Cardinality(Reads("seller")) = (IF c = 0 /\ s > 0 THEN 2 ELSE 1)
    /\ WritesBeforeReads

C10_Witness ==
    /\ pc = "done"
    /\ engine.customer.defined /\ ~engine.business.defined
    /\ Cardinality(Writes("customer")) = 1 /\ Cardinality(Writes("seller")) = 0
    /\ Cardinality(Reads("customer")) = 2 /\ Cardinality(Reads("seller")) = 1

----------------------------------------------------------------------------
(* Who moves the cursor and who changes the canvas settings *)

\* the cursor and the canvas settings before and after the i-th operation
Fresh == NewInvoice(engine.data, engine.charWidth)
StateBefore(i) ==
    IF i = 1
    THEN [x |-> Fresh.x, y |-> Fresh.y, font |-> Fresh.font, color |-> Fresh.fillColor,
          size |-> Fresh.fontSize]
    ELSE [x |-> Log[i - 1].x, y |-> Log[i - 1].y, font |-> Log[i - 1].font,
          color |-> Log[i - 1].color, size |-> Log[i - 1].size]
StateAfter(i) ==
    [x |-> Log[i].x, y |-> Log[i].y, font |-> Log[i].font, color |-> Log[i].color,
     size |-> Log[i].size]
\* the engine is in the state its last operation left
StateIsLogged ==
    IF Log = <<>>
    THEN StateBefore(1) = [x |-> engine.x, y |-> engine.y, font |-> engine.font,
                           color |-> engine.fillColor, size |-> engine.fontSize]
    ELSE StateAfter(Len(Log)) = [x |-> engine.x, y |-> engine.y, font |-> engine.font,
                                 color |-> engine.fillColor, size |-> engine.fontSize]

\* C11 as stated: the cursor, the font, the fill colour and the font size
\* change in setText only.
C11_Original ==
    /\ StateIsLogged
    /\ \A i \in 1..Len(Log) : StateAfter(i) # StateBefore(i) => Log[i].op = "text"

\* C11: the font and the font size change in setText only; the fill colour
\* changes in setText and when generateHeader fills the header band; the
\* cursor's x changes in moveTo only, and its y in setText, moveTo and the
\* canvas's moveDown, which the layout methods call themselves.
C11_SettingsChangeInSetText ==
    /\ StateIsLogged
    /\ \A i \in 1..Len(Log) :
          LET b == StateBefore(i)
              a == StateAfter(i)
          IN  /\ (a.font # b.font \/ a.size # b.size) => Log[i].op = "text"
              /\ a.color # b.color => (Log[i].op = "text" \/ Log[i].site = "header.band")
              /\ a.x # b.x => Log[i].op = "moveTo"
              /\ a.y # b.y => Log[i].op \in {"text", "moveTo", "moveDown"}

\* a finished document in which the band fill changed the colour, a moveTo
\* the cursor's x, a moveDown its y, and a text the font and the size
C11_Witness ==
    /\ pc = "done"
    /\ \E i \in 1..Len(Log) :
          Log[i].site = "header.band" /\ StateAfter(i).color # StateBefore(i).color
    /\ \E i \in 1..Len(Log) : Log[i].op = "moveTo" /\ StateAfter(i).x # StateBefore(i).x
    /\ \E i \in 1..Len(Log) : Log[i].op = "moveDown" /\ StateAfter(i).y # StateBefore(i).y
    /\ \E i \in 1..Len(Log) :
          /\ Log[i].op = "text"
          /\ StateAfter(i).font # StateBefore(i).font
          /\ StateAfter(i).size # StateBefore(i).size

----------------------------------------------------------------------------
(* The fill colour of a text *)

\* the colour setText resolves for a text: the explicit colour when one was
\* passed, else the themed colour of its colorCode
Resolved(ev) ==
    IF ev.fillArg # "" THEN ev.fillArg
    ELSE IF ev.code = "primary" THEN Style.text.primaryColor
    ELSE Style.text.secondaryColor

\* C12: for every setText call the last fill colour handed to the canvas
\* before the text is drawn (the argument of the last fillColor call) is the
\* resolved colour.
C12_LastFillIsResolved ==
    \A i \in 1..Len(Log) : Log[i].op = "text" => Log[i].fillArg = Resolved(Log[i])

----------------------------------------------------------------------------
(* What one setText call does *)

\* the marginTop and the maxWidth a call site passes
MarginAt(ev) ==
    CASE ev.site = "header.label" -> IF ev.row > 0 THEN Pt(4) ELSE 0
      [] ev.site \in {"header.value", "details.value"} -> Pt(4)
      [] ev.site = "details.label" -> Pt(8)
      [] ev.site = "legal.line" -> Pt(10)
      [] OTHER -> 0
WidthAt(ev) ==
    CASE ev.site \in {"details.label", "details.value"} -> {Pt(250)}
      [] ev.site = "totals.label" -> {Style.table.quantity.maxWidth}
      [] ev.site = "totals.value" -> {Style.table.total.maxWidth}
      [] ev.site \in {"row.text", "row.subtext"} ->
            {Style.table.quantity.maxWidth, Style.table.total.maxWidth}
            \cup {Divide(MarginLeft + PageWidth - MarginRight, n - 2) : n \in 2..4}
      [] OTHER -> {NoWidth}

\* C13: setText adds marginTop (default 0) to the cursor's y, draws the text
\* at the resulting (x, y) with the maxWidth it was given as wrapping width
\* and align "left" unless one was given, and leaves the cursor's y at the
\* end of the wrapped text and its x where it was.
C13_SetTextEffect ==
    \A i \in 1..Len(Log) :
       Log[i].op = "text" =>
          /\ Log[i].margin = MarginAt(Log[i])
          /\ Log[i].ty = StateBefore(i).y + Log[i].margin
          /\ Log[i].width \in WidthAt(Log[i])
          /\ Log[i].align \in {"left", "right"}
          /\ Log[i].align = "right" => Log[i].site \in {"row.text", "totals.value"}
          /\ Log[i].y = Log[i].ty
                 + TextLines(Log[i].text,
                             IF Log[i].width = NoWidth
                             THEN PageWidth - MarginRight - StateBefore(i).x
                             ELSE Log[i].width,
                             engine.charWidth) * LineHeight(Log[i].size)
          /\ Log[i].x = StateBefore(i).x

\* a finished document with a text that has a top margin and wraps in its
\* maxWidth, and a text with neither
C13_Witness ==
    /\ pc = "done"
    /\ \E i \in 1..Len(Log) :
          /\ Log[i].op = "text" /\ Log[i].margin > 0 /\ Log[i].width # NoWidth
          /\ Log[i].y - Log[i].ty > LineHeight(Log[i].size)
    /\ \E i \in 1..Len(Log) :
          /\ Log[i].op = "text" /\ Log[i].margin = 0 /\ Log[i].width = NoWidth
          /\ Log[i].y - Log[i].ty = LineHeight(Log[i].size)

----------------------------------------------------------------------------
(* Where the cells of a row go *)

\* the main text of a cell of a table row (header row, item row or sub-row),
\* the 0-based index of the cell in its row, and the length of that row
IsCellText(ev) == ev.op = "text" /\ ev.site = "row.text"
CellIndex(ev) == IF ev.sub > 0 THEN ev.scol ELSE ev.col
CellCount(ev) == IF ev.sub > 0 THEN 3 ELSE Len(RowOf(ev.row))
AtQuantity(ev) ==
    ev.x = Style.table.quantity.position /\ ev.width = Style.table.quantity.maxWidth
AtTotal(ev) ==
    ev.x = Style.table.total.position /\ ev.width = Style.table.total.maxWidth

\* C14 as stated: cell 0 is at the left margin, every cell 1..N-2 at the
\* quantity position with the quantity width, and only the last cell at the
\* total position with the total width.
C14_Original ==
    \A i \in 1..Len(Log) :
       IsCellText(Log[i]) =>
          LET ev == Log[i]
              n == CellCount(ev)
          IN  /\ CellIndex(ev) = 0 => ev.x = MarginLeft
              /\ CellIndex(ev) \in 1..(n - 2) => AtQuantity(ev)
              /\ CellIndex(ev) = n - 1 => AtTotal(ev)
              /\ AtTotal(ev) => CellIndex(ev) = n - 1

\* C14: cell 0 is at the left margin; cell 1 of a row of three or more cells
\* is at the quantity position with the quantity width; every other cell,
\* the cells 2..N-2 of a longer row included, is at the total position with
\* the total width.
C14_QuantitySlotIsCellOne ==
    \A i \in 1..Len(Log) :
       IsCellText(Log[i]) =>
          LET ev == Log[i]
              n == CellCount(ev)
          IN  /\ n >= 2
              /\ CellIndex(ev) = 0 =>
                    /\ ev.x = MarginLeft
                    /\ ev.width = Divide(MarginLeft + PageWidth - MarginRight, n - 2)
              /\ (CellIndex(ev) = 1 /\ n > 2) => AtQuantity(ev)
              /\ (CellIndex(ev) > 1 \/ (CellIndex(ev) = 1 /\ n = 2)) => AtTotal(ev)

\* a finished document with a row of two, of three and of four cells
C14_Witness ==
    /\ pc = "done"
    /\ \E i \in 1..Len(Log) :
          IsCellText(Log[i]) /\ CellCount(Log[i]) = 2 /\ CellIndex(Log[i]) = 1
    /\ \E i \in 1..Len(Log) :
          /\ IsCellText(Log[i]) /\ Log[i].sub = 0
          /\ CellCount(Log[i]) = 3 /\ CellIndex(Log[i]) = 2
    /\ \E i \in 1..Len(Log) :
          IsCellText(Log[i]) /\ CellCount(Log[i]) = 4 /\ CellIndex(Log[i]) = 2

----------------------------------------------------------------------------
(* Price cells *)

\* the cell a main text of the table belongs to: a cell of the header row or
\* of a line item, or one of the three cells generateTableRow builds from a
\* sub-item
SubRow(subitem) ==
    << Cell(subitem.description), Cell(subitem.date),
       [Cell(subitem.price) EXCEPT !.price = TRUE] >>
CellOf(ev) ==
    IF ev.sub = 0 THEN RowOf(ev.row)[ev.col + 1]
    ELSE SubRow(RowOf(ev.row)[ev.col + 1].subitems[ev.sub])[ev.scol + 1]
IsTotalValue(ev) == ev.op = "text" /\ ev.site = "totals.value"

\* C15: in every table row and every totals entry a cell flagged as a price
\* is drawn as prettyPrice(value, currency of the document) and right-aligned,
\* whatever its column; a cell that is not flagged is drawn as its raw value.
C15_PriceCellsFormatted ==
    \A i \in 1..Len(Log) :
       /\ IsCellText(Log[i]) =>
             /\ Log[i].text = CellText(CellOf(Log[i]))
             /\ CellOf(Log[i]).price => Log[i].align = "right"
       /\ IsTotalValue(Log[i]) =>
             LET total == args.totals[Log[i].row]
             IN  /\ Log[i].text = CellText([value |-> total.value, price |-> total.price])
                 /\ total.price => Log[i].align = "right"

\* a finished document with a price cell in the quantity slot and one in the
\* total slot of the same row, a sub-item's price, a plain cell, and a total
\* with and one without the price flag
C15_Witness ==
    /\ pc = "done"
    /\ \E i, j \in 1..Len(Log) :
          /\ IsCellText(Log[i]) /\ IsCellText(Log[j]) /\ Log[i].row = Log[j].row
          /\ Log[i].sub = 0 /\ Log[j].sub = 0
          /\ CellOf(Log[i]).price /\ AtQuantity(Log[i])
          /\ Log[i].text = <<" ", "1", ".", "2", "5", " ", "U", "S", "D">>
          /\ CellOf(Log[j]).price /\ AtTotal(Log[j])
    /\ \E i \in 1..Len(Log) :
          IsCellText(Log[i]) /\ Log[i].sub > 0 /\ CellOf(Log[i]).price
    /\ \E i \in 1..Len(Log) :
          /\ IsCellText(Log[i]) /\ ~CellOf(Log[i]).price
          /\ Log[i].text = <<"x", " ", "2">>
    /\ \E i, j \in 1..Len(Log) :
          /\ IsTotalValue(Log[i]) /\ args.totals[Log[i].row].price
          /\ IsTotalValue(Log[j]) /\ ~args.totals[Log[j].row].price
          /\ Log[j].text = <<"n", "o", "n", "e">>

----------------------------------------------------------------------------
(* Separator lines *)

\* the separator lines drawn so far
Lines == {i \in 1..Len(Log) : Log[i].op = "line"}

\* C16: the line-items stage of a document with k line items draws exactly
\* k + 1 separator lines, one right after the header row and one right after
\* each item row and before the next row starts; none follows a sub-item
\* row, and no other stage draws one.
C16_SeparatorPerRow ==
    /\ ~Ran("lineItems") => Lines = {}
    /\ Ran("lineItems") =>
          /\ Cardinality(Lines) = Len(args.lineItems) + 1
          /\ \A r \in 0..Len(args.lineItems) : \E i \in Lines : Log[i].row = r
    /\ \A i \in Lines :
          /\ Log[i].stage = "lineItems" /\ Log[i].sub = 0
          /\ i > 2 /\ Log[i - 1].op = "moveDown"
          /\ Log[i - 2].site = "row.end" /\ Log[i - 2].sub = 0
          /\ Log[i - 2].row = Log[i].row
          /\ \A j \in 1..Len(Log) :
                (Log[j].stage = "lineItems" /\ Log[j].site \in {"row.column", "row.text"})
                   => (j < i <=> Log[j].row <= Log[i].row)

\* a finished document with two line items, one of them with sub-item rows
C16_Witness ==
    /\ pc = "done"
    /\ Len(args.lineItems) = 2
    /\ Cardinality(Lines) = 3
    /\ \E j \in 1..Len(Log) : Log[j].site = "row.end" /\ Log[j].sub > 0

----------------------------------------------------------------------------
(* Sub-item rows *)

\* the move that starts the row of a sub-item, and the move it returns with
IsSubRowStart(ev) == IsRowStart(ev) /\ ev.sub > 0
IsSubRowEnd(ev) == IsRowEnd(ev) /\ ev.sub > 0
\* the cells the table has with sub-items: row, 0-based column, sub-item
SubItemKeys ==
    UNION {UNION {{<<r, c - 1, j>> : j \in 1..Len(RowOf(r)[c].subitems)} :
                    c \in 1..Len(RowOf(r))} :
             r \in 0..Len(args.lineItems)}
HasSubItem(k) == k \in SubItemKeys
\* the y at which the row of the sub-item with key k starts
SubRowTop(k) ==
    Log[CHOOSE i \in 1..Len(Log) :
          IsSubRowStart(Log[i]) /\ <<Log[i].row, Log[i].col, Log[i].sub>> = k].y

\* C17: every sub-item of a cell, of a header row as of an item row, is
\* drawn as a row of three cells (description, date, price-formatted amount)
\* that starts at the y the cursor is at, with all three texts in the
\* secondary colour; a fixed gap follows each sub-row, and the next sub-row
\* of the cell starts strictly below the one before.
C17_SubItemRows ==
    Ran("lineItems") =>
       /\ \A k \in SubItemKeys :
             LET subitem == RowOf(k[1])[k[2] + 1].subitems[k[3]]
                 texts == [n \in 0..2 |->
                             {i \in 1..Len(Log) :
                                 /\ IsCellText(Log[i])
                                 /\ <<Log[i].row, Log[i].col, Log[i].sub>> = k
                                 /\ Log[i].scol = n}]
             IN  /\ \A n \in 0..2 : Cardinality(texts[n]) = 1
                 /\ \A i \in texts[0] : Log[i].text = JsString(subitem.description)
                 /\ \A i \in texts[1] : Log[i].text = JsString(subitem.date)
                 /\ \A i \in texts[2] :
                       Log[i].text = PrettyPrice(subitem.price, engine.data.currency)
                 /\ \A i \in texts[0] \cup texts[1] \cup texts[2] :
                       /\ Log[i].ty = SubRowTop(k)
                       /\ Log[i].code = "secondary"
                       /\ Log[i].color = Style.text.secondaryColor
                 /\ HasSubItem(<<k[1], k[2], k[3] + 1>>) =>
                       SubRowTop(<<k[1], k[2], k[3] + 1>>) > SubRowTop(k)
       /\ \A i \in 1..Len(Log) :
             /\ IsSubRowStart(Log[i]) => Log[i].y = StateBefore(i).y
             /\ IsSubRowEnd(Log[i]) =>
                   /\ i < Len(Log) /\ Log[i + 1].site = "row.subitem.gap"
                   /\ Log[i + 1].y = Log[i].y + LineHeight(Style.text.regularSize) \div 4
             /\ (IsCellText(Log[i]) /\ Log[i].sub > 0) =>
                   HasSubItem(<<Log[i].row, Log[i].col, Log[i].sub>>)

\* a document whose header row and whose first line item have a cell with
\* two sub-items each, the second sub-row starting below the first
C17_Witness ==
    /\ pc = "done"
    /\ HasSubItem(<<0, 0, 2>>) /\ HasSubItem(<<1, 0, 2>>)
    /\ SubRowTop(<<0, 0, 2>>) > SubRowTop(<<0, 0, 1>>)
    /\ SubRowTop(<<1, 0, 2>>) > SubRowTop(<<1, 0, 1>>)
    /\ \E i \in 1..Len(Log) :
          /\ IsCellText(Log[i]) /\ Log[i].row = 0 /\ Log[i].sub = 1
          /\ Log[i].color = Style.text.secondaryColor
          /\ Log[i].font = Style.fonts.normal

----------------------------------------------------------------------------
(* The totals block *)

\* the index of the one event of the totals stage with this site and entry
TotalEvent(site, op, k) ==
    CHOOSE i \in 1..Len(Log) :
       Log[i].stage = "totals" /\ Log[i].site = site /\ Log[i].op = op /\ Log[i].row = k
\* the layout of the totals: every entry has its label in the quantity slot
\* and its value in the total slot, both at the entry's rowTop = cursor y + 12,
\* bold and primary, and leaves the cursor one line below the value's end; the
\* entries follow each other in list order
TotalsLayout ==
    /\ \A i \in 1..Len(Log) :
          Log[i].stage = "totals" =>
             /\ Log[i].row \in 1..Len(args.totals)
             /\ \A j \in (i + 1)..Len(Log) :
                   Log[j].stage = "totals" => Log[i].row <= Log[j].row
    /\ \A k \in 1..Len(args.totals) :
          LET start == TotalEvent("totals.label", "moveTo", k)
              label == Log[start + 1]
              value == Log[start + 3]
              gap == Log[start + 4]
              rowTop == StateBefore(start).y + Pt(12)
          IN  /\ Log[start].y = rowTop /\ Log[start].x = Style.table.quantity.position
              /\ label.op = "text" /\ label.site = "totals.label"
              /\ label.text = args.totals[k].label
              /\ label.x = Style.table.quantity.position /\ label.ty = rowTop
              /\ value.op = "text" /\ value.site = "totals.value"
              /\ value.x = Style.table.total.position /\ value.ty = rowTop
              /\ \A ev \in {label, value} :
                    /\ ev.font = Style.fonts.bold
                    /\ ev.code = "primary" /\ ev.color = Style.text.primaryColor
              /\ gap.site = "totals.gap"
              /\ gap.y = value.y + LineHeight(Style.text.regularSize)
              /\ gap.row = k
\* the value drawn for a total of 500 flagged as a price, in a document
\* whose currency is EUR
DrawnFor500EUR ==
    {Log[i].text : i \in {j \in 1..Len(Log) :
                            /\ IsTotalValue(Log[j])
                            /\ engine.data.currency = Str(EUR)
                            /\ args.totals[Log[j].row].price
                            /\ args.totals[Log[j].row].value = Num(500)}}

\* C18 as stated: the totals are laid out as above, and a total of 500 with
\* the price flag and currency "EUR" is drawn as "5.00 EUR".
C18_Original ==
    Ran("totals") =>
       /\ TotalsLayout
       /\ DrawnFor500EUR \subseteq {<<"5", ".", "0", "0", " ", "E", "U", "R">>}

\* C18: the totals are laid out as above, and a total of 500 with the price
\* flag and currency "EUR" is drawn as " 5.00 EUR", the amount padded on the
\* left to five characters.
C18_TotalsLayoutPadded ==
    Ran("totals") =>
       /\ TotalsLayout
       /\ DrawnFor500EUR \subseteq {<<" ", "5", ".", "0", "0", " ", "E", "U", "R">>}

\* a finished receipt in EUR with two totals, the first one 500 flagged as
\* a price, whose value wraps below its label
C18_Witness ==
    /\ pc = "done"
    /\ Len(args.totals) = 2
    /\ DrawnFor500EUR # {}
    /\ Log[TotalEvent("totals.value", "text", 1)].y
          > Log[TotalEvent("totals.label", "text", 1)].y

----------------------------------------------------------------------------
(* The legal text *)

\* the operations of the legal stage, in order
LegalEvents == SelectSeq(Log, LAMBDA ev : ev.stage = "legal")
\* the index in the log of the first of them
LegalStart == CHOOSE i \in 1..Len(Log) : Log[i].site = "legal.start"

----------------------------------------------------------------------------
(* Two runs on equal inputs *)

\* the canvas commands of a log, in the order they were issued
Commands(log) == SelectSeq(log, LAMBDA ev : ev.op \in {"rect", "text", "line", "end"})

----------------------------------------------------------------------------
(* The width of the first column *)

\* the main text of the first cell of a row (header row, item row, sub-row)
IsFirstCellText(ev) == IsCellText(ev) /\ CellIndex(ev) = 0

\* C23: for every row of two or more cells, the first cell's text is
\* wrapped in a finite positive width, the quotient of the page's width by
\* columns.length - 2.
C23_FirstColumnWidthFinite ==
    \A i \in 1..Len(Log) :
       (IsFirstCellText(Log[i]) /\ CellCount(Log[i]) >= 2) =>
          /\ Log[i].width > 0
          /\ Log[i].width < Infinity
          /\ Log[i].width = (MarginLeft + PageWidth - MarginRight)
                                \div (CellCount(Log[i]) - 2)

\* C24: the first cell of a row of three cells is wrapped in a width that
\* ends at or before the quantity column: left margin + width <= 330.
C24_DescriptionEndsBeforeQuantity ==
    \A i \in 1..Len(Log) :
       (IsFirstCellText(Log[i]) /\ CellCount(Log[i]) = 3) =>
          /\ Log[i].x = MarginLeft
          /\ Log[i].x + Log[i].width <= Style.table.quantity.position

----------------------------------------------------------------------------
(* Consecutive totals *)

\* C25: every entry of the totals but the first starts at or below the end
\* of the label and the end of the value of the entry before it.
C25_TotalsStartBelowPrevious ==
    Ran("totals") =>
       \A k \in 1..(Len(args.totals) - 1) :
          LET next == Log[TotalEvent("totals.label", "moveTo", k + 1)].y
          IN  /\ next >= Log[TotalEvent("totals.label", "text", k)].y
              /\ next >= Log[TotalEvent("totals.value", "text", k)].y

----------------------------------------------------------------------------
(* Claims about getAddresses, checked under SpecAddresses *)

\* C26: for every combination of present and absent fields the call returns:
\* whenever the loop tests its counter, the counter is not negative (it is
\* decremented at every test and ends the loop only when found 0), the array
\* never grows until memory is exhausted, and when the call has returned
\* customerAddress has at least as many entries as businessAddress, exactly as
\* many when it started with fewer.
C26_ReturnsPadded ==
    /\ addr.pc = "test" => addr.customerAddressEmptyLines >= 0
    /\ addr.pc # "exhausted"
    /\ addr.pc = "returned" =>
          /\ Len(addr.customerAddress) >= Len(addr.businessAddress)
          /\ Len(CustomerAddress(addr.billing_details)) < Len(addr.businessAddress)
                => Len(addr.customerAddress) = Len(addr.businessAddress)

----------------------------------------------------------------------------
(* Claims about getMonthPeriods, checked under SpecMonths *)

\* the first instant of a month
IsMonthStart(date) == date.day = 1 /\ date.hour = 0
\* the number of a date's month, counted from year 0
MonthNumber(date) == date.year * 12 + date.month

\* C29: for every current date, every period returned starts at the first
\* instant of a month and ends at the first instant of the month after it,
\* every period starts at or after the end of the one before it, and the last
\* period is the current month.
C29_PeriodsAreMonths ==
    months.pc = "returned" =>
       LET periods == months.periods
       IN  /\ \A k \in 1..Len(periods) :
                 /\ IsMonthStart(periods[k].start) /\ IsMonthStart(periods[k].end)
                 /\ MonthNumber(periods[k].end) = MonthNumber(periods[k].start) + 1
           /\ \A k \in 1..(Len(periods) - 1) :
                 MonthNumber(periods[k + 1].start) >= MonthNumber(periods[k].end)
           /\ Len(periods) > 0
           /\ MonthNumber(periods[Len(periods)].start) = months.year * 12 + months.month

----------------------------------------------------------------------------
(* Claims about payoutLineItems, checked under SpecPayout *)

\* the sum of the prices of a list of sub-items
RECURSIVE SumOfPrices(_)
SumOfPrices(subitems) ==
    IF subitems = <<>> THEN 0
    ELSE Head(subitems).price.n + SumOfPrices(Tail(subitems))

\* the transactions handed in are charges, refunds and fees
OnlyChargesRefundsFees ==
    \A k \in 1..Len(payout.transactions) :
        payout.transactions[k].type
            \in {"charge", "refund", "stripe_fee", "application_fee", "passthrough_fee"}

\* the amount a row displays is the sum of the prices its sub-items display
RowAddsUp(row) ==
    /\ row[2].value.n = SumOfPrices(row[1].subitems)
    /\ PrettyPrice(row[2].value, Str(<<"E", "U", "R">>))
          = PrettyPrice(Num(SumOfPrices(row[1].subitems)), Str(<<"E", "U", "R">>))

\* C30: when payoutLineItems returns for a list of charge, refund and fee
\* transactions, no two rows bear the same group, there are at most four
\* rows, and the amount each row displays is the sum of the prices its
\* sub-items display.
C30_OneRowPerGroupAddingUp ==
    (payout.pc = "returned" /\ OnlyChargesRefundsFees) =>
        /\ Len(payout.rows) <= 4
        /\ \A i, j \in 1..Len(payout.rows) :
              payout.rows[i][1].value = payout.rows[j][1].value => i = j
        /\ \A i \in 1..Len(payout.rows) : RowAddsUp(payout.rows[i])

\* the same for the version with four groups alone
C30_In004 == payout.version = "part_004" => C30_OneRowPerGroupAddingUp
\* a payout with merged fees and a refund was turned into rows by part_004
C30_In004Merged ==
    /\ payout.pc = "returned" /\ payout.version = "part_004" /\ OnlyChargesRefundsFees
    /\ Len(payout.txs) < Len(payout.transactions)
    /\ \E k \in 1..Len(payout.transactions) : payout.transactions[k].type = "refund"

----------------------------------------------------------------------------
(* Claims about createAndSaveReceipts, checked under SpecReceipts *)

\* C27: once fetchBalanceTransactions has returned with an entry in
\* results.errors, totals.errors is greater than 0, and the run logs the
\* errors and exits with status 1 without creating the output directory
\* or writing a receipt.
C27_ErrorsStopTheRun ==
    (run.pc # "fetch" /\ run.results.errors # <<>>) =>
        /\ run.totals.errors > 0
        /\ ~run.receiptDir
        /\ run.files = <<>>
        /\ run.pc \in {"check", "exited"}
        /\ run.pc = "exited" => (run.exit = "1" /\ run.logged = run.results.errors)

\* a receipt was written in a run whose fetch recorded an error
C27_WrittenDespiteErrors ==
    /\ run.results.errors # <<>>
    /\ run.receiptDir
    /\ run.files # <<>>


\* the number a string of decimal digits denotes
DigitValue(c) == CHOOSE d \in 0..9 : NatToString(d) = <<c>>
RECURSIVE ParseDigits(_)
ParseDigits(s) ==
    IF s = <<>> THEN 0
    ELSE ParseDigits(SubSeq(s, 1, Len(s) - 1)) * 10 + DigitValue(s[Len(s)])
\* the sequence number at the end of a receipt number
SequenceNumber(doc) ==
    ParseDigits(SubSeq(doc.receiptNumber, Len(doc.receiptNumber) - 3,
                       Len(doc.receiptNumber)))
\* how often a charge occurs in a list of charges
Occurrences(charges, charge) == Cardinality({k \in 1..Len(charges) : charges[k] = charge})

\* C28: of the receipts begun so far, one whose charge was created earlier
\* bears the smaller sequence number, the sequence numbers are 1..k each
\* once, and no two bear the same receipt number or file name; when the
\* map has returned, the receipts are those of all the charges fetched.
C28_NumberedByCreation ==
    /\ \A i, j \in 1..Len(run.docs) :
          /\ run.docs[i].charge.created < run.docs[j].charge.created
                => SequenceNumber(run.docs[i]) < SequenceNumber(run.docs[j])
          /\ i # j => run.docs[i].receiptNumber # run.docs[j].receiptNumber
    /\ {SequenceNumber(run.docs[i]) : i \in 1..Len(run.docs)} = 1..Len(run.docs)
    /\ \A i, j \in 1..Len(run.files) : run.files[i].name = run.files[j].name => i = j
    /\ run.pc = "await" =>
          /\ Len(run.docs) = Len(run.results.charges)
          /\ \A k \in 1..Len(run.docs) :
                Occurrences([i \in 1..Len(run.docs) |-> run.docs[i].charge],
                            run.docs[k].charge)
                   = Occurrences(run.results.charges, run.docs[k].charge)

\* the provider listed a later charge of the same month before an earlier
\* one, and both receipts are written
C28_Witness ==
    /\ Len(run.results.charges) = 2
    /\ run.results.charges[1].created > run.results.charges[2].created
    /\ ReceiptDate(run.results.charges[1].created)
          = ReceiptDate(run.results.charges[2].created)
    /\ Len(run.files) = 2


\* the file written for a document, if any
FilesOf(doc) ==
    {k \in 1..Len(run.files) : run.files[k].name = doc.receiptNumber \o <<".", "p", "d", "f">>}

\* C22: a file exists for a document only if its generate() ran all its
\* statements and its promise resolved with the complete buffer (every
\* canvas command up to the end of the document), which is what the file
\* holds; a document one of whose stages threw has no file.
C22_WrittenAfterCompleteBuffer ==
    \A i \in 1..Len(run.docs) :
        LET doc == run.docs[i]
        IN  /\ FilesOf(doc) # {} =>
                 /\ doc.pc = "done"
                 /\ doc.engine.ended
                 /\ doc.promise = "written"
                 /\ doc.buffer = doc.engine.log
                 /\ doc.buffer # <<>>
                 /\ doc.buffer[Len(doc.buffer)].op = "end"
                 /\ \A k \in FilesOf(doc) : run.files[k].data = doc.buffer
            /\ doc.pc = "thrown" => (FilesOf(doc) = {} /\ doc.promise = "rejected")
            /\ doc.promise = "written" => FilesOf(doc) # {}

\* of two documents one was written in full and the other threw in a stage
\* after its header and has no file
C22_Witness ==
    /\ Len(run.docs) = 2
    /\ \E i, j \in 1..2 :
          /\ FilesOf(run.docs[i]) # {}
          /\ Len(run.files[CHOOSE k \in FilesOf(run.docs[i]) : TRUE].data) > 10
          /\ run.docs[j].pc = "thrown"
          /\ run.docs[j].engine.log # <<>>
          /\ FilesOf(run.docs[j]) = {}


\* the documents other than the i-th have run all their statements or thrown
OthersAtRest(i) ==
    \A j \in 1..Len(run.docs) : j # i => run.docs[j].pc \in {"done", "thrown"}

\* C21: a document's engine (cursor, section heights, options, canvas
\* commands) starts as the one constructed for its charge and changes only
\* by the next statement of its own generate() applied to its own state
\* and arguments, and only while every other document of the run has run
\* all its statements or thrown, which the step leaves as they are: no
\* statement of one document runs between two of another, and none while
\* the promises are awaited.
C21_DocumentsAreIndependent ==
    [][/\ Len(run'.docs) >= Len(run.docs)
       /\ \A i \in 1..Len(run'.docs) :
             IF i > Len(run.docs)
             THEN /\ run.pc = "map" /\ OthersAtRest(i)
                  /\ run'.docs[i].engine =
                        CreateReceipt(run'.docs[i].charge, run'.docs[i].receiptNumber,
                                      GetAddresses(run'.docs[i].charge.billing_details,
                                                   Business),
                                      run.charWidth)
             ELSE run'.docs[i].engine # run.docs[i].engine =>
                  /\ run.pc = "map" /\ OthersAtRest(i)
                  /\ run.docs[i].pc \in GenerateStages
                  /\ run'.docs[i].engine =
                        RunStage(run.docs[i].pc, run.docs[i].engine, run.docs[i].args)
                  /\ \A j \in 1..Len(run.docs) : j # i => run'.docs[j] = run.docs[j]]_vars

\* two documents whose party blocks differ in height are generated, the
\* second after the first, and are awaited together
C21_Witness ==
    /\ run.pc = "await"
    /\ Len(run.docs) = 2
    /\ \A i \in 1..2 : run.docs[i].promise = "pending" /\ run.docs[i].engine.ended
    /\ run.docs[1].engine.storage.customer.height
          # run.docs[2].engine.storage.customer.height
    /\ Len(run.docs[2].engine.log) > 10

====
